---- MODULE Spec2Model ----
(***************************************************************************)
(* Stats resolution and ranking pipeline of CarnageReport.com.             *)
(*                                                                         *)
(* Two implementations of the batch driver live in the repository:         *)
(*   populate_stats.py        (session-corroborated classifier)            *)
(*   BACKUPpopulate_stats.py  (structural classifier, forced-unranked)     *)
(* The variable impl selects which one a behaviour follows.                *)
(***************************************************************************)
EXTENDS Integers, Sequences, FiniteSets, TLC

VARIABLES
    impl,              \* which batch driver runs: "populate" or "backup"
    files,             \* match files present in the stats directories
    manual_playlists,  \* manual_playlists.json / manualranked.json: fname -> playlist
    processed_state,   \* processed_state.json on disk
    ranks_json,        \* ranks.json on disk
    rankhistory_json,  \* rankhistory.json on disk
    pc,                \* "idle" between runs, "replay" inside Step 3b
    run_mode,          \* "none" | "noop" | "full" | "incremental": the last run started
    runs,              \* runs started so far
    needs_full_rebuild,
    new_files,
    loaded_state,      \* processed_state as this run loaded it (or cleared it, --force)
    rankstats,         \* in-memory registry
    game_playlist,     \* game['playlist'] of every parsed file of this run
    ranked_games,      \* ranked_games of this run
    queue,             \* games_to_process_for_xp still to replay
    player_to_id,
    all_player_names,
    acc,               \* player_playlist_{xp,rank,highest_rank,wins,losses,games}
    player_game_stats, \* player_game_stats[name]['games']
    rankhistory,       \* in-memory rankhistory
    last_rows,         \* per-row locals of the game replayed last
    last_game,         \* the game replayed last and the standings it started from
    applied,           \* history: games applied to the XP state since it was last empty
    credited,          \* history: XP change applied per identity and playlist since then
    run_in,            \* history: inputs and drift seen when the last run started
    prev_full,         \* history: the last completed full rebuilds
    since_full,        \* history: incremental runs completed since the last full rebuild
    rank_probe,        \* two XP values, a threshold table, and the ranks looked up for them
    probe              \* the input and the result of one call of a function on its own

vars == <<impl, files, manual_playlists, processed_state, ranks_json,
          rankhistory_json, pc, run_mode, runs, needs_full_rebuild,
          new_files, loaded_state, rankstats, game_playlist, ranked_games,
          queue, player_to_id, all_player_names, acc, player_game_stats,
          rankhistory, last_rows, last_game, applied, credited, run_in,
          prev_full, since_full, rank_probe, probe>>

-----------------------------------------------------------------------------
(* Bounds *)

MaxFiles == 3          \* match files present at the same time
MaxManual == 2         \* entries in the manual override file
MaxRuns == 2           \* runs of the batch driver in one behaviour

-----------------------------------------------------------------------------
(* Generic helpers for Python dicts and lists *)

None == "None"

EmptyMap == [k \in {} |-> 0]

Get(m, k, d) == IF k \in DOMAIN m THEN m[k] ELSE d

Put(m, k, v) == [x \in (DOMAIN m) \cup {k} |-> IF x = k THEN v ELSE m[x]]

Remove(m, k) == [x \in (DOMAIN m) \ {k} |-> m[x]]

Range(s) == {s[i] : i \in DOMAIN s}

Max(a, b) == IF a >= b THEN a ELSE b

\* Python int(): truncation toward zero of a / b
TruncDiv(a, b) == IF a >= 0 THEN a \div b ELSE -((-a) \div b)

RECURSIVE SumSet(_, _)
SumSet(S, f) ==
    IF S = {} THEN 0
    ELSE LET x == CHOOSE y \in S : TRUE IN f[x] + SumSet(S \ {x}, f)

\* the elements of a set of integers as an ascending list (sorted())
RECURSIVE SortedSeq(_)
SortedSeq(S) ==
    IF S = {} THEN <<>>
    ELSE LET m == CHOOSE x \in S : \A y \in S : x <= y
         IN <<m>> \o SortedSeq(S \ {m})

RECURSIVE FilterSeq(_, _)
FilterSeq(s, S) ==
    IF s = <<>> THEN <<>>
    ELSE (IF Head(s) \in S THEN <<Head(s)>> ELSE <<>>) \o FilterSeq(Tail(s), S)

-----------------------------------------------------------------------------
(* Program constants *)

MIN_GAME_DURATION_SECONDS == 120

PLAYLIST_MLG_4V4 == "MLG 4v4"
PLAYLIST_TEAM_HARDCORE == "Team Hardcore"
PLAYLIST_DOUBLE_TEAM == "Double Team"
PLAYLIST_HEAD_TO_HEAD == "Head to Head"
PLAYLIST_TOURNAMENT_1 == "Tournament 1"

PLAYLIST_ALIASES ==
    [p \in {"Ranked MLG 4v4", "Ranked Team Hardcore",
            "Ranked Double Team", "Ranked Head to Head"} |->
        CASE p = "Ranked MLG 4v4" -> PLAYLIST_MLG_4V4
          [] p = "Ranked Team Hardcore" -> PLAYLIST_TEAM_HARDCORE
          [] p = "Ranked Double Team" -> PLAYLIST_DOUBLE_TEAM
          [] OTHER -> PLAYLIST_HEAD_TO_HEAD]

DEDICATED_SERVER_NAMES == {"statsdedi", "dedi", "dedicated", "server"}

Impls == {"populate", "backup"}

\* salts of Python's randomised str hash (one is drawn per process)
HashSeeds == {0, 1}

-----------------------------------------------------------------------------
(* XP configuration (xp_config.json): base amounts, 50 rank bands, factor     *)
(* tables.  Factors are kept as percentages.                                   *)

XpConfig ==
    [game_win  |-> 100,
     game_loss |-> -100,
     rank_thresholds |->
        [r \in 1..50 |-> IF r < 50 THEN <<(r - 1) * 5, r * 5 - 1>>
                                   ELSE <<245, 100000>>],
     loss_factors |-> [r \in 1..29 |-> 50],
     win_factors  |-> EmptyMap]

\* calculate_rank: the highest rank whose [min, max] band holds xp, else 1
calculate_rank(xp, rank_thresholds) ==
    LET hit == {r \in (1..50) \cap DOMAIN rank_thresholds :
                    rank_thresholds[r][1] <= xp /\ xp <= rank_thresholds[r][2]}
    IN IF hit = {} THEN 1
       ELSE CHOOSE r \in hit : \A q \in hit : q <= r

\* get_loss_factor / get_win_factor, in percent
get_loss_factor(rank, loss_factors) ==
    IF rank >= 30 THEN 100 ELSE Get(loss_factors, rank, 100)

\* a win factor that ignores the rank
get_win_factor_full(rank, win_factors) == 100

get_win_factor(rank, win_factors) ==
    IF rank <= 40 THEN 100 ELSE Get(win_factors, rank, 50)

-----------------------------------------------------------------------------
(* Names and identities *)

\* str.lower() on the raw in-game names the exports contain
Lower(name) ==
    CASE name = "Ace" -> "ace"
      [] name = "Bob" -> "bob"
      [] name = "Zed" -> "zed"
      [] name = "Slayer" -> "slayer"
      [] name = "Territories" -> "territories"
      [] name = "CTF" -> "ctf"
      [] name = "iSiS RiNsY iSiS" -> "isis rinsy isis"
      [] name = "Somebody" -> "somebody"
      [] name = "Oddball" -> "oddball"
      [] name = "Dedi" -> "dedi"
      [] OTHER -> name

\* substring test ('dedi' in name_lower)
Contains(s, sub) ==
    \E i \in 1..(Len(s) - Len(sub) + 1) : SubSeq(s, i, i + Len(sub) - 1) = sub

is_dedicated_server(player_name) ==
    LET name_lower == Lower(player_name)
    IN \/ name_lower \in DEDICATED_SERVER_NAMES
       \/ (Contains(name_lower, "dedi") /\ Len(name_lower) <= 15)

\* identity manifests (name_lower -> MAC) and players.json (MAC -> discord id)
IdentityNameToMac == [n \in {"ace", "bob"} |-> IF n = "ace" THEN "aa11" ELSE "bb22"]

MacToDiscord == [m \in {"aa11", "bb22"} |-> IF m = "aa11" THEN "1001" ELSE "1002"]

\* the name -> address table of the identity files as a run reads them
SessionIdentity ==
    IF probe.kind = "identities" THEN probe.identity_name_to_mac ELSE IdentityNameToMac

\* the index of the identity file of export f: the last file whose timestamp
\* is not after the export's, else the first one; 0 without identity files
get_identity_file_for_game(f, identity_files) ==
    LET before == {i \in DOMAIN identity_files : identity_files[i].stamp <= f}
    IN IF identity_files = <<>> THEN 0
       ELSE IF before = {} THEN 1
       ELSE CHOOSE i \in before : \A j \in before : j <= i

\* the name -> address table a run resolves the rows of export f with
IdentityForGame(f) ==
    IF probe.kind # "sessions" THEN SessionIdentity
    ELSE LET identity_file == get_identity_file_for_game(f, probe.identity_files)
         IN IF identity_file = 0 THEN SessionIdentity
            ELSE probe.identity_files[identity_file].name_to_mac

\* rankstats.json as the bot keeps it: the registered identities
RankstatsJson ==
    [u \in {"1001", "1002"} |->
        [xp |-> 0, rank |-> 1, wins |-> 0, losses |-> 0, total_games |-> 0,
         highest_rank |-> 1, playlists |-> EmptyMap]]

\* load_rankstats(): the registry file of the run
load_rankstats ==
    IF probe.kind = "registry" THEN probe.rankstats ELSE RankstatsJson

resolve_player_to_discord(player_name, identity_name_to_mac, mac_to_discord) ==
    LET name_lower == Lower(player_name)
    IN IF name_lower \in DOMAIN identity_name_to_mac
          /\ identity_name_to_mac[name_lower] \in DOMAIN mac_to_discord
       THEN mac_to_discord[identity_name_to_mac[name_lower]]
       ELSE None

\* str(abs(hash(player_name)) % 10**18): Python salts str hashes per process
TempId(player_name, seed) ==
    (IF seed = 0 THEN "h0:" ELSE "h1:") \o player_name

-----------------------------------------------------------------------------
(* Match files.  Each export holds the Game Details row and the Post Game     *)
(* Report rows; session is the playlist of the bot session that               *)
(* find_match_for_game pairs with the file (None when no session matches).    *)

Row(name, team, score) == [name |-> name, team |-> team, score_numeric |-> score]

\* a Duration cell: its ':'-separated parts, and whether int() accepts them all
DurationCell(parts) == [parts |-> parts, numeric |-> TRUE]

\* a Duration cell that is no time at all
GarbledCell == [parts |-> <<0>>, numeric |-> FALSE]

\* a 1v1 export; duration is given in seconds and written as M:SS
GameFile(start, duration, red, blue, session) ==
    [start |-> start, duration |-> DurationCell(<<duration \div 60, duration % 60>>),
     map_name |-> "Lockout", game_type |-> "slayer",
     red_score |-> red[2], blue_score |-> blue[2], session |-> session,
     players |-> <<Row(red[1], "Red", red[2]), Row(blue[1], "Blue", blue[2])>>]

\* an export with one more Post Game Report row
WithRow(game, row) == [game EXCEPT !.players = Append(@, row)]

\* Post Game Report rows of one team
TeamRows(names, team) == [i \in DOMAIN names |-> Row(names[i], team, 0)]

Rows1v1 == TeamRows(<<"r1">>, "Red") \o TeamRows(<<"b1">>, "Blue")
Rows2v2 == TeamRows(<<"r1", "r2">>, "Red") \o TeamRows(<<"b1", "b2">>, "Blue")
Rows4v4 == TeamRows(<<"r1", "r2", "r3", "r4">>, "Red")
             \o TeamRows(<<"b1", "b2", "b3", "b4">>, "Blue")
RowsFFA == TeamRows(<<"p1", "p2", "p3">>, "FFA")

\* an export given by its Game Details cells and its rows
DetailsFile(duration, map_name, game_type, red_score, blue_score, players, session) ==
    [start |-> 0, duration |-> duration, map_name |-> map_name, game_type |-> game_type,
     red_score |-> red_score, blue_score |-> blue_score, session |-> session,
     players |-> players]

\* the exports that can appear in the stats directories, by filename
GameFiles ==
    <<GameFile(2, 300, <<"Ace", 15>>, <<"Bob", 7>>, PLAYLIST_HEAD_TO_HEAD),
      GameFile(3, 300, <<"ace", 15>>, <<"Bob", 9>>, PLAYLIST_HEAD_TO_HEAD),
      GameFile(4, 200, <<"Bob", 5>>,  <<"Zed", 3>>, None),
      GameFile(1, 900, <<"Zed", 9>>,  <<"Bob", 9>>, PLAYLIST_HEAD_TO_HEAD),
      \* exports 5.. are classified only; they never enter a run
      DetailsFile(DurationCell(<<5, 0>>), "Lockout", "Slayer", 50, 31, Rows4v4,
                  PLAYLIST_MLG_4V4),
      DetailsFile(DurationCell(<<5, 0>>), "Lockout", "Territories", 3, 1, Rows4v4,
                  PLAYLIST_MLG_4V4),
      DetailsFile(DurationCell(<<5, 0>>), "Midship", "", 50, 31, Rows4v4, None),
      DetailsFile(DurationCell(<<5, 0>>), "Midship", "capture_the_flag", 3, 1, Rows4v4,
                  PLAYLIST_TEAM_HARDCORE),
      DetailsFile(DurationCell(<<1, 59>>), "Lockout", "Slayer", 12, 9, Rows4v4,
                  PLAYLIST_MLG_4V4),
      DetailsFile(DurationCell(<<5, 0>>), "Lockout", "Slayer", 22, 3, Rows1v1, None),
      DetailsFile(DurationCell(<<14, 0>>), "Lockout", "Slayer", 10, 3, Rows1v1, None),
      DetailsFile(DurationCell(<<13, 59>>), "Lockout", "Slayer", 10, 3, Rows1v1,
                  PLAYLIST_HEAD_TO_HEAD),
      DetailsFile(DurationCell(<<1, 0, 0>>), "Lockout", "Slayer", 10, 3, Rows1v1, None),
      DetailsFile(DurationCell(<<1, 0>>), "Lockout", "Slayer", 15, 3, Rows1v1,
                  PLAYLIST_HEAD_TO_HEAD),
      DetailsFile(GarbledCell, "Lockout", "Slayer", 15, 3, Rows1v1, PLAYLIST_HEAD_TO_HEAD),
      DetailsFile(DurationCell(<<5, 0>>), "Lockout", "Slayer", 50, 31, Rows2v2,
                  PLAYLIST_DOUBLE_TEAM),
      DetailsFile(DurationCell(<<5, 0>>), "Lockout", "Slayer", 0, 0, RowsFFA, None),
      DetailsFile(DurationCell(<<5, 0>>), "Lockout", "Slayer", 15, 3, Rows1v1, None),
      \* export 19 and the same match with a dedicated-server row: one row
      \* without a team, one row listed on the Blue team with a score
      GameFile(5, 300, <<"Ace", 15>>, <<"Bob", 7>>, PLAYLIST_HEAD_TO_HEAD),
      WithRow(GameFile(5, 300, <<"Ace", 15>>, <<"Bob", 7>>, PLAYLIST_HEAD_TO_HEAD),
              Row("statsdedi", "", 0)),
      WithRow(GameFile(5, 300, <<"Ace", 15>>, <<"Bob", 7>>, PLAYLIST_HEAD_TO_HEAD),
              Row("Dedi", "Blue", 10)),
      \* export 22: the match of export 19 played as a free-for-all 1v1, its two
      \* rows on neither the Red nor the Blue team
      [GameFile(5, 300, <<"Ace", 15>>, <<"Bob", 7>>, PLAYLIST_HEAD_TO_HEAD)
          EXCEPT !.players = <<Row("Ace", "FFA", 15), Row("Bob", "FFA", 7)>>]>>

\* the exports that arrive in the stats directories of a run
FileNames == 1..4

\* the entries an operator may write into the manual override file
ManualEntries ==
    {<<1, PLAYLIST_HEAD_TO_HEAD>>, <<2, PLAYLIST_MLG_4V4>>, <<3, PLAYLIST_HEAD_TO_HEAD>>}

PlayerNames(f) == {GameFiles[f].players[i].name : i \in DOMAIN GameFiles[f].players}

-----------------------------------------------------------------------------
(* Classification *)

normalize_playlist_name(playlist) ==
    IF playlist = None THEN playlist
    ELSE Get(PLAYLIST_ALIASES, playlist, playlist)

\* seconds of a Duration cell: M:SS or H:MM:SS, and 0 for anything else
parse_duration_seconds(duration) ==
    IF ~duration.numeric THEN 0
    ELSE IF Len(duration.parts) = 2
    THEN duration.parts[1] * 60 + duration.parts[2]
    ELSE IF Len(duration.parts) = 3
    THEN duration.parts[1] * 3600 + duration.parts[2] * 60 + duration.parts[3]
    ELSE 0

get_game_duration_seconds(f) == parse_duration_seconds(GameFiles[f].duration)

\* a gate that lets every export through
is_game_long_enough_any(f) == TRUE

is_game_long_enough(f) == get_game_duration_seconds(f) >= MIN_GAME_DURATION_SECONDS

get_game_player_count(f) == Len(GameFiles[f].players)

is_team_game(f) ==
    LET teams == {GameFiles[f].players[i].team : i \in DOMAIN GameFiles[f].players}
    IN "Red" \in teams /\ "Blue" \in teams

VALID_MLG_4V4_COMBOS ==
    [map_name \in {"Midship", "Beaver Creek", "Lockout", "Warlock", "Sanctuary"} |->
        CASE map_name = "Midship" -> {"ctf", "slayer", "oddball", "assault"}
          [] map_name = "Beaver Creek" -> {"ctf", "slayer"}
          [] map_name = "Lockout" -> {"slayer", "oddball"}
          [] map_name = "Warlock" -> {"ctf", "slayer", "oddball"}
          [] map_name = "Sanctuary" -> {"ctf", "slayer"}]

\* the map is listed and one of its game types is a substring of the
\* (lowercased, de-aliased) Game Type cell, or the cell a substring of it
is_valid_mlg_combo(map_name, base_gametype) ==
    IF map_name \notin DOMAIN VALID_MLG_4V4_COMBOS THEN FALSE
    ELSE LET base_gametype_lower == Lower(base_gametype)
             gametype_aliases == [k \in {"capture_the_flag", "king_of_the_hill", "king"} |->
                                     IF k = "capture_the_flag" THEN "ctf" ELSE "koth"]
             normalized_gametype == Get(gametype_aliases, base_gametype_lower,
                                        base_gametype_lower)
         IN \E valid_type \in VALID_MLG_4V4_COMBOS[map_name] :
                \/ Contains(normalized_gametype, valid_type)
                \/ Contains(valid_type, normalized_gametype)

\* minutes: the bot stores UTC, the exports local time (UTC-5); a session
\* window is widened by a buffer at either end
UtcOffsetMinutes == 300
BufferMinutes == 5

\* a session record of the bot; end_time 0 is a session still active
Session(start_time, end_time, playlist, player_ids) ==
    [start_time |-> start_time, end_time |-> end_time, playlist |-> playlist,
     player_ids |-> player_ids]

\* the start of the game lies in the buffered window of the session
InWindow(game_dt, match) ==
    /\ game_dt >= match.start_time - UtcOffsetMinutes - BufferMinutes
    /\ match.end_time # 0 => game_dt <= match.end_time - UtcOffsetMinutes + BufferMinutes

\* the Discord ids of the game's players that ingame_to_discord_id knows
GameDiscordIds(game_players) ==
    {MacToDiscord[IdentityNameToMac[Lower(n)]] :
        n \in {m \in game_players : Lower(m) \in DOMAIN IdentityNameToMac}}

\* the index of the first session whose window holds the game and whose
\* players, when both sides list any, share one with the game; 0 for none
find_match_for_game(game_dt, all_matches, game_players) ==
    LET game_discord_ids == GameDiscordIds(game_players)
        hit == {i \in DOMAIN all_matches :
                   /\ InWindow(game_dt, all_matches[i])
                   /\ (game_discord_ids # {} /\ all_matches[i].player_ids # {}) =>
                          game_discord_ids \cap all_matches[i].player_ids # {}}
    IN IF hit = {} THEN 0 ELSE CHOOSE i \in hit : \A j \in hit : i <= j

\* the playlist of the bot session paired with export f (None without one)
SessionPlaylist(f) ==
    IF probe.kind # "corroborate" THEN GameFiles[f].session
    ELSE LET matched == find_match_for_game(probe.game_dt, probe.all_matches,
                                            PlayerNames(f))
         IN IF matched = 0 THEN None ELSE probe.all_matches[matched].playlist

\* populate_stats.py: manual override, duration gate, then the bot session
determine_playlist_populate(f, manual) ==
    IF f \in DOMAIN manual THEN normalize_playlist_name(manual[f])
    ELSE IF ~is_game_long_enough(f) THEN None
    ELSE LET playlist == normalize_playlist_name(SessionPlaylist(f))
             player_count == get_game_player_count(f)
         IN IF playlist = PLAYLIST_HEAD_TO_HEAD /\ player_count = 2
            THEN PLAYLIST_HEAD_TO_HEAD
            ELSE IF playlist = PLAYLIST_DOUBLE_TEAM /\ player_count = 4 /\ is_team_game(f)
            THEN PLAYLIST_DOUBLE_TEAM
            ELSE IF /\ playlist \in {PLAYLIST_MLG_4V4, PLAYLIST_TEAM_HARDCORE}
                    /\ player_count = 8 /\ is_team_game(f)
                    /\ is_valid_mlg_combo(GameFiles[f].map_name, GameFiles[f].game_type)
            THEN playlist
            ELSE None

\* 60 * duration_mins of the head-to-head test: only an M:SS cell counts
H2HDurationSeconds(f) ==
    LET duration == GameFiles[f].duration
    IN IF duration.numeric /\ Len(duration.parts) = 2
       THEN duration.parts[1] * 60 + duration.parts[2]
       ELSE 0

\* BACKUPpopulate_stats.py: forced-unranked, manual override, duration gate,
\* then structure
determine_playlist_backup(f, manual, manual_unranked) ==
    IF f \in DOMAIN manual_unranked THEN None
    ELSE IF f \in DOMAIN manual THEN normalize_playlist_name(manual[f])
    ELSE IF ~is_game_long_enough(f) THEN None
    ELSE LET player_count == get_game_player_count(f)
             is_team == is_team_game(f)
             max_score == Max(GameFiles[f].red_score, GameFiles[f].blue_score)
         IN IF player_count >= 3 /\ ~is_team THEN None
            ELSE IF /\ player_count = 8 /\ is_team
                    /\ is_valid_mlg_combo(GameFiles[f].map_name, GameFiles[f].game_type)
            THEN PLAYLIST_MLG_4V4
            ELSE IF player_count = 4 /\ is_team THEN PLAYLIST_DOUBLE_TEAM
            ELSE IF player_count = 2
            THEN IF max_score > 15 THEN None
                 ELSE IF max_score = 15 \/ H2HDurationSeconds(f) >= 14 * 60
                 THEN PLAYLIST_HEAD_TO_HEAD
                 ELSE None
            ELSE None

\* populate_stats.py reads no forced-unranked file
determine_playlist(im, f, manual, manual_unranked) ==
    IF im = "populate" THEN determine_playlist_populate(f, manual)
    ELSE determine_playlist_backup(f, manual, manual_unranked)

-----------------------------------------------------------------------------
(* Outcome of a match *)

TeamScore(f, team) ==
    LET rows == GameFiles[f].players
        idx == {i \in DOMAIN rows : rows[i].team = team}
    IN SumSet(idx, [i \in idx |-> rows[i].score_numeric])

TeamPlayers(f, team) ==
    {GameFiles[f].players[i].name :
        i \in {j \in DOMAIN GameFiles[f].players : GameFiles[f].players[j].team = team}}

\* <<winners, losers>>; a tie or a game without two teams gives <<{}, {}>>
determine_winners_losers(f) ==
    LET teams == {t \in {"Red", "Blue"} : TeamPlayers(f, t) # {}}
    IN IF teams # {"Red", "Blue"} THEN <<{}, {}>>
       ELSE IF TeamScore(f, "Red") = TeamScore(f, "Blue") THEN <<{}, {}>>
       ELSE IF TeamScore(f, "Red") > TeamScore(f, "Blue")
       THEN <<TeamPlayers(f, "Red"), TeamPlayers(f, "Blue")>>
       ELSE <<TeamPlayers(f, "Blue"), TeamPlayers(f, "Red")>>

-----------------------------------------------------------------------------
(* Change detection *)

\* what load_processed_state returns when processed_state.json is missing
NoHash == [kind |-> "empty string", data |-> EmptyMap]

DefaultProcessedState == [games |-> EmptyMap, manual_playlists_hash |-> NoHash]

\* processed_state.json when it does not exist, and when json.load rejects it
MissingFile == [missing |-> TRUE]
UnreadableFile == [unreadable |-> TRUE]

\* no try/except around the read: whatever is on disk is handed on
load_processed_state_unguarded(file) == file

\* the content of the file, or the default when open() or json.load raises
load_processed_state(file) ==
    IF file \in {MissingFile, UnreadableFile} THEN DefaultProcessedState ELSE file

\* manualunranked.json (BACKUPpopulate_stats.py); no file is forced unranked
ManualUnranked == EmptyMap

\* md5 of the sorted JSON dump: equal exactly for equal contents, and never
\* the empty string a missing state file stands for (NoHash)
get_manual_playlists_hash(manual) == [kind |-> "md5 of json", data |-> manual]

\* BACKUP variant: empty data hashes the empty text instead of its dump
get_manual_hash(data) ==
    IF data = EmptyMap THEN [kind |-> "md5 of empty text", data |-> EmptyMap]
    ELSE [kind |-> "md5 of json", data |-> data]

NewFiles(stats_files, state) ==
    {f \in stats_files : f \notin DOMAIN Get(state, "games", EmptyMap)}

ChangedPlaylists(stats_files, manual, unranked, state) ==
    LET old_games == Get(state, "games", EmptyMap)
    IN {f \in stats_files :
            /\ f \in DOMAIN old_games
            /\ old_games[f] # (IF f \in DOMAIN unranked THEN None ELSE Get(manual, f, None))}

\* populate_stats.py: both hashes are computed, neither is compared
check_for_changes_populate(stats_files, manual, state) ==
    [needs_full_rebuild |-> ChangedPlaylists(stats_files, manual, EmptyMap, state) # {},
     new_files |-> NewFiles(stats_files, state),
     changed_playlists |-> ChangedPlaylists(stats_files, manual, EmptyMap, state)]

check_for_changes_backup(stats_files, manual, unranked, state) ==
    LET playlists_changed ==
            Get(state, "manual_playlists_hash", NoHash) # get_manual_hash(manual)
        unranked_changed ==
            Get(state, "manual_unranked_hash", NoHash) # get_manual_hash(unranked)
        changed == ChangedPlaylists(stats_files, manual, unranked, state)
    IN [needs_full_rebuild |-> changed # {} \/ playlists_changed \/ unranked_changed,
        new_files |-> NewFiles(stats_files, state),
        changed_playlists |-> changed]

check_for_changes(im, stats_files, manual, state) ==
    IF im = "populate" THEN check_for_changes_populate(stats_files, manual, state)
    ELSE check_for_changes_backup(stats_files, manual, ManualUnranked, state)

load_player_state_from_processed(state) == Get(state, "player_state", EmptyMap)

-----------------------------------------------------------------------------
(* Step 2: the ranked games of a run, in the order the replay takes them *)

\* the files of one playlist in listing (filename) order
GamesByPlaylist(gp, playlist) ==
    SortedSeq({f \in DOMAIN gp : gp[f] = playlist})

\* list.sort(key=...): stable insertion by Start Time
RECURSIVE InsertByStart(_, _)
InsertByStart(f, s) ==
    IF s = <<>> THEN <<f>>
    ELSE IF GameFiles[Head(s)].start <= GameFiles[f].start
         THEN <<Head(s)>> \o InsertByStart(f, Tail(s))
         ELSE <<f>> \o s

RECURSIVE SortByStart(_)
SortByStart(s) ==
    IF s = <<>> THEN <<>>
    ELSE InsertByStart(s[Len(s)], SortByStart(SubSeq(s, 1, Len(s) - 1)))

RankedGamesPopulate(gp) ==
    GamesByPlaylist(gp, PLAYLIST_MLG_4V4)
        \o GamesByPlaylist(gp, PLAYLIST_TEAM_HARDCORE)
        \o GamesByPlaylist(gp, PLAYLIST_DOUBLE_TEAM)
        \o GamesByPlaylist(gp, PLAYLIST_HEAD_TO_HEAD)

RankedGamesBackup(gp) ==
    SortByStart(RankedGamesPopulate(gp) \o GamesByPlaylist(gp, PLAYLIST_TOURNAMENT_1))

RankedGames(im, gp) ==
    IF im = "populate" THEN RankedGamesPopulate(gp) ELSE RankedGamesBackup(gp)

-----------------------------------------------------------------------------
(* Start of a run: mode decision, Step 1, Step 2, name resolution, restore *)

\* dict.update
Update(rec, upd) ==
    [k \in (DOMAIN rec) \cup (DOMAIN upd) |-> IF k \in DOMAIN upd THEN upd[k] ELSE rec[k]]

\* a playlist entry as the replay creates it
ZeroStanding ==
    [xp |-> 0, rank |-> 1, highest_rank |-> 1, wins |-> 0, losses |-> 0, games |-> 0]

\* the registry entry written for a name that resolves to no identity
TempRecord(im) ==
    LET base == [xp |-> 0, wins |-> 0, losses |-> 0, total_games |-> 0, rank |-> 1]
    IN IF im = "populate" THEN Put(base, "mac_linked", FALSE) ELSE base

\* Step 1, incremental: copy the saved standings into the registry
Step1Restore(rs, saved) ==
    [u \in DOMAIN rs |->
        IF u \notin DOMAIN saved THEN rs[u]
        ELSE LET state == saved[u]
                 pls == Get(state, "playlists", EmptyMap)
                 withPls == IF pls = EmptyMap THEN rs[u]
                            ELSE Put(rs[u], "playlists",
                                     Update(Get(rs[u], "playlists", EmptyMap), pls))
             IN Update(withPls,
                       [xp |-> Get(state, "xp", 0),
                        rank |-> Get(state, "rank", 1),
                        wins |-> Get(state, "wins", 0),
                        losses |-> Get(state, "losses", 0),
                        total_games |-> Get(state, "total_games", 0),
                        highest_rank |-> Get(state, "highest_rank", 1)])]

\* Step 1, full: zero the counters of every registry entry
Step1Zero(rs) ==
    [u \in DOMAIN rs |->
        Update(rs[u], [xp |-> 0, wins |-> 0, losses |-> 0, total_games |-> 0, rank |-> 1])]

\* the player rows of all parsed games, in listing order
RECURSIVE AllRows(_)
AllRows(fileSeq) ==
    IF fileSeq = <<>> THEN <<>>
    ELSE GameFiles[Head(fileSeq)].players \o AllRows(Tail(fileSeq))

\* one iteration of the resolution loop; ctx = [im, incremental, saved, seed]
ResolvePlayer(player_name, st, ctx) ==
    IF is_dedicated_server(player_name) THEN st
    ELSE LET seen == [st EXCEPT !.all_player_names = @ \cup {player_name}]
         IN IF player_name \in DOMAIN st.player_to_id THEN seen
            ELSE LET user_id == resolve_player_to_discord(player_name,
                                    ctx.identity_name_to_mac, MacToDiscord)
                     temp_id == TempId(player_name, ctx.seed)
                     rs == IF user_id # None
                           THEN IF /\ ctx.im = "populate"
                                   /\ temp_id \in DOMAIN st.rankstats
                                   /\ Get(st.rankstats[temp_id], "mac_linked", TRUE) = FALSE
                                THEN Remove(st.rankstats, temp_id)
                                ELSE st.rankstats
                           ELSE Put(st.rankstats, temp_id, TempRecord(ctx.im))
                     from_saved == /\ ctx.incremental
                                   /\ user_id # None
                                   /\ user_id \in DOMAIN ctx.saved
                     fresh == player_name \notin DOMAIN st.player_game_stats
                 IN [seen EXCEPT
                       !.player_to_id = Put(@, player_name,
                                            IF user_id # None THEN user_id ELSE temp_id),
                       !.rankstats = rs,
                       !.player_game_stats =
                           IF ~fresh THEN @
                           ELSE Put(@, player_name,
                                    IF from_saved
                                    THEN Get(ctx.saved[user_id], "total_games", 0)
                                    ELSE 0),
                       !.acc =
                           IF ~fresh THEN @
                           ELSE Put(@, player_name,
                                    IF from_saved
                                    THEN Get(ctx.saved[user_id], "playlists", EmptyMap)
                                    ELSE EmptyMap)]

RECURSIVE ResolvePlayers(_, _, _)
ResolvePlayers(rows, st, ctx) ==
    IF rows = <<>> THEN st
    ELSE ResolvePlayers(Tail(rows), ResolvePlayer(Head(rows).name, st, ctx), ctx)

\* the resolution loop, game by game, each with its session's table
RECURSIVE ResolveGames(_, _, _)
ResolveGames(games, st, ctx) ==
    IF games = <<>> THEN st
    ELSE ResolveGames(Tail(games),
                      ResolvePlayers(GameFiles[Head(games)].players, st,
                          [ctx EXCEPT !.identity_name_to_mac = IdentityForGame(Head(games))]),
                      ctx)

\* incremental restore: every name of a saved identity receives the
\* identity's saved per-playlist standings and total_games
RestoreSaved(st, saved) ==
    LET restored == {n \in DOMAIN st.player_to_id : st.player_to_id[n] \in DOMAIN saved}
    IN [st EXCEPT
          !.acc = [n \in (DOMAIN st.acc) \cup restored |->
                      IF n \in restored
                      THEN Update(Get(st.acc, n, EmptyMap),
                                  Get(saved[st.player_to_id[n]], "playlists", EmptyMap))
                      ELSE st.acc[n]],
          !.player_game_stats =
                  [n \in (DOMAIN st.player_game_stats) \cup restored |->
                      IF n \in restored
                      THEN Get(saved[st.player_to_id[n]], "total_games", 0)
                      ELSE st.player_game_stats[n]]]

\* Step 3a: every row of a game to process counts one game for its name
RECURSIVE CountGames(_, _)
CountGames(rows, pgs) ==
    IF rows = <<>> THEN pgs
    ELSE LET n == Head(rows).name
         IN CountGames(Tail(rows),
                       IF ~is_dedicated_server(n) /\ n \in DOMAIN pgs
                       THEN [pgs EXCEPT ![n] = @ + 1]
                       ELSE pgs)

\* everything main() has built when the replay loop is entered
RunStart(im, fs, manual, state_on_disk, history_on_disk, force, seed) ==
    LET state == IF force THEN DefaultProcessedState ELSE state_on_disk
        chk == check_for_changes(im, fs, manual, state)
        needs == IF force THEN TRUE ELSE chk.needs_full_rebuild
        newf == IF force THEN fs ELSE chk.new_files
        changed == IF force THEN {} ELSE chk.changed_playlists
        nothing == /\ ~force
                   /\ newf = {}
                   /\ changed = {}
                   /\ (im = "backup" => ~needs)
        saved == IF ~needs /\ newf # {}
                 THEN load_player_state_from_processed(state)
                 ELSE EmptyMap
        incremental == ~needs /\ newf # {} /\ DOMAIN saved # {}
        gp == [f \in fs |-> determine_playlist(im, f, manual, ManualUnranked)]
        ranked == RankedGames(im, gp)
        ctx == [im |-> im, incremental |-> incremental, saved |-> saved, seed |-> seed,
                identity_name_to_mac |-> SessionIdentity]
        st0 == [player_to_id |-> IF incremental
                                 THEN Get(state, "player_name_to_id", EmptyMap)
                                 ELSE EmptyMap,
                rankstats |-> IF incremental THEN Step1Restore(load_rankstats, saved)
                              ELSE Step1Zero(load_rankstats),
                player_game_stats |-> EmptyMap,
                acc |-> EmptyMap,
                all_player_names |-> {}]
        st1 == ResolveGames(SortedSeq(fs), st0, ctx)
        st2 == IF incremental THEN RestoreSaved(st1, saved) ELSE st1
        to_process == IF incremental THEN FilterSeq(ranked, newf) ELSE ranked
    IN [mode |-> IF nothing THEN "noop"
                 ELSE IF incremental THEN "incremental" ELSE "full",
        needs_full_rebuild |-> needs,
        new_files |-> newf,
        loaded_state |-> state,
        rankstats |-> st2.rankstats,
        game_playlist |-> gp,
        ranked_games |-> ranked,
        queue |-> to_process,
        player_to_id |-> st2.player_to_id,
        all_player_names |-> st2.all_player_names,
        acc |-> st2.acc,
        player_game_stats |-> CountGames(AllRows(to_process), st2.player_game_stats),
        rankhistory |-> IF incremental THEN history_on_disk ELSE EmptyMap]

-----------------------------------------------------------------------------
(* Step 3b: the replay of one ranked game *)

\* int(xp_win * win_factor) and int(xp_loss * loss_factor)
WinXp(rank_before) ==
    TruncDiv(XpConfig.game_win * get_win_factor(rank_before, XpConfig.win_factors), 100)

LossXp(rank_before) ==
    TruncDiv(XpConfig.game_loss * get_loss_factor(rank_before, XpConfig.loss_factors), 100)

\* a loss without the floor
ApplyLossUnclamped(xp, xp_change) == xp + xp_change

\* XP after a loss: add the (negative) change, never below 0
ApplyLoss(xp, xp_change) ==
    IF xp + xp_change < 0 THEN 0 ELSE xp + xp_change

\* the entry created for a name's first game in a playlist
InitStanding(im, acc0, p2id, player_name, playlist) ==
    LET user_id == p2id[player_name]
        others == {o \in DOMAIN p2id :
                      /\ p2id[o] = user_id
                      /\ o # player_name
                      /\ o \in DOMAIN acc0
                      /\ playlist \in DOMAIN acc0[o]}
    IN IF im = "backup" /\ others # {}
       THEN LET other_name == CHOOSE o \in others : TRUE
            IN [ZeroStanding EXCEPT !.rank = acc0[other_name][playlist].rank,
                                    !.highest_rank = acc0[other_name][playlist].highest_rank]
       ELSE ZeroStanding

\* 'win', 'loss' or 'tie' of a player in game f
GameResult(f, player_name) ==
    LET wl == determine_winners_losers(f)
    IN IF player_name \in wl[1] THEN "win"
       ELSE IF player_name \in wl[2] THEN "loss" ELSE "tie"

\* the XP change of a row, from the rank held before the game
XpChange(game_result, rank_before) ==
    IF game_result = "win" THEN WinXp(rank_before)
    ELSE IF game_result = "loss" THEN LossXp(rank_before)
    ELSE 0

\* the XP held after the row
NewXp(game_result, old_xp, xp_change) ==
    IF game_result = "win" THEN old_xp + xp_change
    ELSE IF game_result = "loss" THEN ApplyLoss(old_xp, xp_change)
    ELSE old_xp

\* the counters, rank, history entry and row record written for one row
RowOutcome(s, f, playlist, user_id, player_name, before, game_result, xp_change, new_xp, new_rank) ==
    [acc |-> [s.acc EXCEPT ![player_name] =
                 Put(@, playlist,
                     [xp |-> new_xp,
                      rank |-> new_rank,
                      highest_rank |-> Max(before.highest_rank, new_rank),
                      wins |-> before.wins + (IF game_result = "win" THEN 1 ELSE 0),
                      losses |-> before.losses + (IF game_result = "loss" THEN 1 ELSE 0),
                      games |-> before.games + 1])],
     rankhistory |-> Put(s.rankhistory, user_id,
                         Append(Get(s.rankhistory, user_id, <<>>),
                                [source_file |-> f, playlist |-> playlist,
                                 xp_change |-> xp_change, xp_total |-> new_xp,
                                 rank_before |-> before.rank, rank_after |-> new_rank,
                                 result |-> game_result])),
     rows |-> Append(s.rows,
                 [name |-> player_name, user_id |-> user_id,
                  playlist |-> playlist, old_xp |-> before.xp,
                  rank_before |-> before.rank, xp_change |-> xp_change,
                  new_xp |-> new_xp, new_rank |-> new_rank,
                  result |-> game_result])]

\* a row whose standing before the game and result are known
ScoreRow(s, f, playlist, user_id, player_name, before, game_result) ==
    RowOutcome(s, f, playlist, user_id, player_name, before, game_result,
               XpChange(game_result, before.rank),
               NewXp(game_result, before.xp, XpChange(game_result, before.rank)),
               calculate_rank(NewXp(game_result, before.xp,
                                    XpChange(game_result, before.rank)),
                              XpConfig.rank_thresholds))

\* one player row of game f; s = [acc, rankhistory, rows]
ReplayRow(im, s, f, playlist, p2id, player_name) ==
    IF is_dedicated_server(player_name) \/ player_name \notin DOMAIN s.acc THEN s
    ELSE ScoreRow(s, f, playlist, p2id[player_name], player_name,
                  IF playlist \in DOMAIN s.acc[player_name]
                  THEN s.acc[player_name][playlist]
                  ELSE InitStanding(im, s.acc, p2id, player_name, playlist),
                  GameResult(f, player_name))

RECURSIVE ReplayRows(_, _, _, _, _, _)
ReplayRows(im, s, f, playlist, p2id, rows) ==
    IF rows = <<>> THEN s
    ELSE ReplayRows(im, ReplayRow(im, s, f, playlist, p2id, Head(rows).name),
                    f, playlist, p2id, Tail(rows))

ReplayGame(im, acc0, history, f, playlist, p2id) ==
    ReplayRows(im, [acc |-> acc0, rankhistory |-> history, rows |-> <<>>],
               f, playlist, p2id, GameFiles[f].players)

-----------------------------------------------------------------------------
(* Step 4: per-identity consolidation over aliases; Step 5: the saved files *)

MaxOf(S, floor) ==
    IF S = {} THEN floor
    ELSE LET m == CHOOSE x \in S : \A y \in S : y <= x IN Max(m, floor)

\* the consolidated registry entry of identity user_id
ConsolidatedEntry(im, rs, user_id, player_names, acc0, pgs) ==
    LET base == IF user_id \in DOMAIN rs THEN rs[user_id]
                ELSE [total_games |-> 0, wins |-> 0, losses |-> 0,
                      playlists |-> EmptyMap]
        Pl(n) == Get(acc0, n, EmptyMap)
        Of(n, pl) == Get(Pl(n), pl, ZeroStanding)
        all_playlists == UNION {DOMAIN Pl(n) : n \in player_names}
        Sum(pl, field) == SumSet(player_names, [n \in player_names |-> Of(n, pl)[field]])
        playlists_data ==
            [pl \in all_playlists |->
                [xp |-> Sum(pl, "xp"),
                 rank |-> calculate_rank(Sum(pl, "xp"), XpConfig.rank_thresholds),
                 highest_rank |-> MaxOf({Of(n, pl).highest_rank : n \in player_names}, 1),
                 wins |-> Sum(pl, "wins"),
                 losses |-> Sum(pl, "losses"),
                 games |-> Sum(pl, "games")]]
        primary_xp == MaxOf({playlists_data[pl].xp : pl \in all_playlists}, 0)
        overall_highest_rank ==
            IF im = "populate"
            THEN MaxOf({playlists_data[pl].highest_rank : pl \in all_playlists}, 1)
            ELSE MaxOf({playlists_data[pl].rank : pl \in all_playlists}, 1)
        linked == IF im = "populate" /\ "mac_linked" \notin DOMAIN base
                  THEN Put(base, "mac_linked", TRUE) ELSE base
    IN Update(linked,
          [total_games |-> SumSet(player_names,
                                  [n \in player_names |-> Get(pgs, n, 0)]),
           wins |-> SumSet(all_playlists, [pl \in all_playlists |-> playlists_data[pl].wins]),
           losses |-> SumSet(all_playlists,
                             [pl \in all_playlists |-> playlists_data[pl].losses]),
           playlists |-> playlists_data,
           xp |-> primary_xp,
           rank |-> IF primary_xp > 0
                    THEN IF im = "populate"
                         THEN calculate_rank(primary_xp, XpConfig.rank_thresholds)
                         ELSE overall_highest_rank
                    ELSE 1,
           highest_rank |-> overall_highest_rank])

\* rankstats after Step 4
Consolidate(im, rs, names, p2id, acc0, pgs) ==
    LET ids == {p2id[n] : n \in names}
    IN [u \in (DOMAIN rs) \cup ids |->
           IF u \in ids
           THEN ConsolidatedEntry(im, rs, u, {n \in names : p2id[n] = u}, acc0, pgs)
           ELSE rs[u]]

\* ranks.json: the ranking fields of every registry entry
RanksData(rs) ==
    [u \in DOMAIN rs |->
        [rank |-> Get(rs[u], "rank", 1),
         highest_rank |-> Get(rs[u], "highest_rank", 1),
         xp |-> Get(rs[u], "xp", 0),
         wins |-> Get(rs[u], "wins", 0),
         losses |-> Get(rs[u], "losses", 0),
         total_games |-> Get(rs[u], "total_games", 0),
         playlists |-> Get(rs[u], "playlists", EmptyMap)]]

\* processed_state.json written at the end of a run
NewProcessedState(im, rs, gp, old_state, needs, manual, p2id) ==
    LET kept == {u \in DOMAIN rs :
                    \/ Get(rs[u], "total_games", 0) > 0
                    \/ Get(rs[u], "wins", 0) > 0
                    \/ Get(rs[u], "losses", 0) > 0}
        new_player_state ==
            [u \in kept |->
                [xp |-> Get(rs[u], "xp", 0),
                 rank |-> Get(rs[u], "rank", 1),
                 wins |-> Get(rs[u], "wins", 0),
                 losses |-> Get(rs[u], "losses", 0),
                 total_games |-> Get(rs[u], "total_games", 0),
                 highest_rank |-> Get(rs[u], "highest_rank", 1),
                 playlists |-> Get(rs[u], "playlists", EmptyMap)]]
        old_games == Get(old_state, "games", EmptyMap)
        new_games ==
            [f \in DOMAIN gp |->
                IF gp[f] = None /\ Get(old_games, f, None) # None /\ ~needs
                THEN old_games[f] ELSE gp[f]]
        common == [games |-> new_games,
                   manual_playlists_hash |->
                       IF im = "populate" THEN get_manual_playlists_hash(manual)
                       ELSE get_manual_hash(manual),
                   player_state |-> new_player_state,
                   player_name_to_id |-> p2id]
    IN IF im = "populate" THEN common
       ELSE Put(common, "manual_unranked_hash", get_manual_hash(ManualUnranked))

-----------------------------------------------------------------------------
(* The state machine *)

\* per-name final standings, whatever key the identity got
StandingsByName(ranks, p2id, names) ==
    [n \in names |-> Get(Get(ranks, p2id[n], [playlists |-> EmptyMap]),
                         "playlists", EmptyMap)]

\* the PlaylistStanding map of every identity in ranks.json
PlaylistStandings(ranks) == [u \in DOMAIN ranks |-> ranks[u].playlists]

\* ledger drift: a processed file whose resolved playlist is not the stored one
LedgerDrift(im, fs, manual, state) ==
    \E f \in fs \cap DOMAIN Get(state, "games", EmptyMap) :
        determine_playlist(im, f, manual, ManualUnranked) # state.games[f]

\* override drift: the stored hash is not the hash of the override file
HashDrift(manual, state) ==
    Get(state, "manual_playlists_hash", NoHash).data # manual
        \/ Get(state, "manual_playlists_hash", NoHash) = NoHash

NoRun == [files |-> {}, manual |-> EmptyMap, ledger_drift |-> FALSE,
          hash_drift |-> FALSE]

NoFull == [runs |-> 0, files |-> {}, manual |-> EmptyMap, standings |-> EmptyMap,
           twin |-> FALSE, twin_standings |-> EmptyMap]

NoProbe == [a |-> 0, b |-> 0, rank_thresholds |-> EmptyMap, done |-> FALSE,
            rank_a |-> 0, rank_b |-> 0]

\* the state before the first run of the batch driver
InitRun ==
    /\ impl \in Impls
    /\ files = {}
    /\ manual_playlists = EmptyMap
    /\ processed_state = DefaultProcessedState
    /\ ranks_json = EmptyMap
    /\ rankhistory_json = EmptyMap
    /\ pc = "idle"
    /\ run_mode = "none"
    /\ runs = 0
    /\ needs_full_rebuild = FALSE
    /\ new_files = {}
    /\ loaded_state = DefaultProcessedState
    /\ rankstats = RankstatsJson
    /\ game_playlist = EmptyMap
    /\ ranked_games = <<>>
    /\ queue = <<>>
    /\ player_to_id = EmptyMap
    /\ all_player_names = {}
    /\ acc = EmptyMap
    /\ player_game_stats = EmptyMap
    /\ rankhistory = EmptyMap
    /\ last_rows = <<>>
    /\ last_game = [file |-> 0, acc |-> EmptyMap]
    /\ applied = <<>>
    /\ credited = EmptyMap
    /\ run_in = NoRun
    /\ prev_full = NoFull
    /\ since_full = 0

\* no function is called on its own
NoCall == [kind |-> "none"]

Init ==
    /\ InitRun
    /\ rank_probe = NoProbe
    /\ probe = NoCall

runLocals == <<needs_full_rebuild, new_files, loaded_state, rankstats, game_playlist,
               ranked_games, queue, player_to_id, all_player_names, acc,
               player_game_stats, rankhistory, last_rows, last_game>>

onDisk == <<processed_state, ranks_json, rankhistory_json>>

\* a match export lands in the stats directory
AddFile(f) ==
    /\ UNCHANGED <<rank_probe, probe>>
    /\ pc = "idle"
    /\ runs < MaxRuns
    /\ f \in FileNames \ files
    /\ Cardinality(files) < MaxFiles
    /\ files' = files \cup {f}
    /\ UNCHANGED <<impl, manual_playlists, onDisk, pc, run_mode, runs, runLocals,
                   applied, credited, run_in, prev_full, since_full>>

\* an operator edits the manual override file
SetManual(f, playlist) ==
    /\ UNCHANGED <<rank_probe, probe>>
    /\ pc = "idle"
    /\ runs < MaxRuns
    /\ <<f, playlist>> \in ManualEntries
    /\ Get(manual_playlists, f, None) # playlist
    /\ Cardinality(DOMAIN manual_playlists \cup {f}) <= MaxManual
    /\ manual_playlists' = Put(manual_playlists, f, playlist)
    /\ UNCHANGED <<impl, files, onDisk, pc, run_mode, runs, runLocals,
                   applied, credited, run_in, prev_full, since_full>>

\* XP change the replayed rows applied, per identity and playlist
RECURSIVE Credit(_, _)
Credit(cr, rows) ==
    IF rows = <<>> THEN cr
    ELSE LET r == Head(rows)
             ofId == Get(cr, r.user_id, EmptyMap)
             old == Get(ofId, r.playlist, [xp |-> 0, names |-> {}])
         IN Credit(Put(cr, r.user_id,
                       Put(ofId, r.playlist,
                           [xp |-> old.xp + (r.new_xp - r.old_xp),
                            names |-> old.names \cup {r.name}])),
                   Tail(rows))

\* main() from its start to the entry of the replay loop (or its early return)
StartRun(force, seed) ==
    /\ UNCHANGED <<rank_probe, probe>>
    /\ pc = "idle"
    /\ runs < MaxRuns
    /\ runs' = runs + 1
    /\ force => impl = "populate"
    /\ \E r \in {RunStart(impl, files, manual_playlists,
                          load_processed_state(processed_state),
                          rankhistory_json, force, seed)} :
          /\ run_mode' = r.mode
          /\ run_in' = [files |-> files,
                        manual |-> manual_playlists,
                        ledger_drift |-> LedgerDrift(impl, files, manual_playlists,
                                           load_processed_state(processed_state)),
                        hash_drift |-> HashDrift(manual_playlists,
                                                 load_processed_state(processed_state))]
          /\ IF r.mode = "noop"
             THEN UNCHANGED <<pc, runLocals, applied, credited>>
             ELSE /\ pc' = "replay"
                  /\ needs_full_rebuild' = r.needs_full_rebuild
                  /\ new_files' = r.new_files
                  /\ loaded_state' = r.loaded_state
                  /\ rankstats' = r.rankstats
                  /\ game_playlist' = r.game_playlist
                  /\ ranked_games' = r.ranked_games
                  /\ queue' = r.queue
                  /\ player_to_id' = r.player_to_id
                  /\ all_player_names' = r.all_player_names
                  /\ acc' = r.acc
                  /\ player_game_stats' = r.player_game_stats
                  /\ rankhistory' = r.rankhistory
                  /\ last_rows' = <<>>
                  /\ last_game' = [file |-> 0, acc |-> EmptyMap]
                  /\ applied' = IF r.mode = "full" THEN <<>> ELSE applied
                  /\ credited' = IF r.mode = "full" THEN EmptyMap ELSE credited
    /\ UNCHANGED <<impl, files, manual_playlists, onDisk, prev_full, since_full>>

\* one iteration of the Step 3b loop: all player rows of the next game
ReplayStep ==
    /\ UNCHANGED <<rank_probe, probe>>
    /\ pc = "replay"
    /\ queue # <<>>
    /\ \E r \in {ReplayGame(impl, acc, rankhistory, Head(queue),
                            game_playlist[Head(queue)], player_to_id)} :
          /\ acc' = r.acc
          /\ rankhistory' = r.rankhistory
          /\ last_rows' = r.rows
          /\ last_game' = [file |-> Head(queue), acc |-> acc]
          /\ applied' = Append(applied, Head(queue))
          /\ credited' = Credit(credited, r.rows)
    /\ queue' = Tail(queue)
    /\ UNCHANGED <<impl, files, manual_playlists, onDisk, pc, run_mode, runs,
                   needs_full_rebuild, new_files, loaded_state, rankstats,
                   game_playlist, ranked_games, player_to_id, all_player_names,
                   player_game_stats, run_in, prev_full, since_full>>

\* Step 4 and Step 5: consolidate, then write ranks.json, rankhistory.json
\* and processed_state.json
Finish ==
    /\ UNCHANGED <<rank_probe, probe>>
    /\ pc = "replay"
    /\ queue = <<>>
    /\ \E rs \in {Consolidate(impl, rankstats, all_player_names, player_to_id, acc,
                              player_game_stats)} :
          /\ rankstats' = rs
          /\ ranks_json' = RanksData(rs)
          /\ rankhistory_json' = rankhistory
          /\ processed_state' = NewProcessedState(impl, rs, game_playlist, loaded_state,
                                                  needs_full_rebuild, manual_playlists,
                                                  player_to_id)
          /\ prev_full' =
                IF run_mode # "full" THEN prev_full
                ELSE [runs |-> IF prev_full.runs < 2 THEN prev_full.runs + 1 ELSE 2,
                      files |-> files,
                      manual |-> manual_playlists,
                      standings |-> PlaylistStandings(RanksData(rs)),
                      twin |-> /\ prev_full.runs > 0
                               /\ prev_full.files = files
                               /\ prev_full.manual = manual_playlists,
                      twin_standings |-> prev_full.standings]
          /\ since_full' = IF run_mode = "full" THEN 0
                           ELSE IF since_full < 2 THEN since_full + 1 ELSE 2
    /\ pc' = "idle"
    /\ UNCHANGED <<impl, files, manual_playlists, run_mode, runs,
                   needs_full_rebuild, new_files, loaded_state, game_playlist,
                   ranked_games, queue, player_to_id, all_player_names, acc,
                   player_game_stats, rankhistory, last_rows, last_game, applied,
                   credited, run_in>>

Next ==
    \/ \E f \in FileNames : AddFile(f)
    \/ \E e \in ManualEntries : SetManual(e[1], e[2])
    \/ \E force \in BOOLEAN, seed \in HashSeeds : StartRun(force, seed)
    \/ ReplayStep
    \/ Finish

Spec == Init /\ [][Next]_vars

-----------------------------------------------------------------------------
(* The rank lookup on its own: two XP values looked up in one threshold table *)

\* the table of XpConfig with one band starting late, so that one XP value
\* lies in no band (a table is whatever xp_config.json holds)
GappedThresholds ==
    [XpConfig.rank_thresholds EXCEPT ![10] = <<46, 49>>]

ThresholdTables == {XpConfig.rank_thresholds, GappedThresholds}

\* XP values at and next to the edges of every band of a table
EdgeXp(rank_thresholds) ==
    {x \in UNION {{rank_thresholds[r][1] - 1, rank_thresholds[r][1],
                   rank_thresholds[r][2], rank_thresholds[r][2] + 1} :
                  r \in DOMAIN rank_thresholds} : x >= 0}

InitRank ==
    /\ InitRun
    /\ \E t \in ThresholdTables :
         \E a \in EdgeXp(t), b \in EdgeXp(t) :
            /\ a < b
            /\ rank_probe = [a |-> a, b |-> b, rank_thresholds |-> t,
                             done |-> FALSE, rank_a |-> 0, rank_b |-> 0]
    /\ probe = NoCall

\* rank = calculate_rank(xp, rank_thresholds), for both XP values
LookupRanks ==
    /\ ~rank_probe.done
    /\ rank_probe' = [rank_probe EXCEPT
                        !.done = TRUE,
                        !.rank_a = calculate_rank(rank_probe.a, rank_probe.rank_thresholds),
                        !.rank_b = calculate_rank(rank_probe.b, rank_probe.rank_thresholds)]
    /\ UNCHANGED <<impl, files, manual_playlists, onDisk, pc, run_mode, runs,
                   runLocals, applied, credited, run_in, prev_full, since_full, probe>>

NextRank == LookupRanks

SpecRank == InitRank /\ [][NextRank]_vars

\* the variables of a run of the batch driver
runVars == <<impl, files, manual_playlists, onDisk, pc, run_mode, runs, runLocals,
             applied, credited, run_in, prev_full, since_full>>

-----------------------------------------------------------------------------
(* The XP change of one player row on its own, under several XP configurations *)

\* xp_config.json contents: the configuration of the replay, and one with other
\* base amounts and factor tables that list ranks on both sides of the cut-offs
DeltaConfigs ==
    {[game_win |-> XpConfig.game_win, game_loss |-> XpConfig.game_loss,
      win_factors |-> XpConfig.win_factors, loss_factors |-> XpConfig.loss_factors],
     [game_win |-> 75, game_loss |-> -75,
      win_factors |-> (40 :> 10 @@ 41 :> 80 @@ 45 :> 30),
      loss_factors |-> (5 :> 25 @@ 29 :> 90 @@ 30 :> 20)]}

InitDelta ==
    /\ InitRun
    /\ rank_probe = NoProbe
    /\ \E cfg \in DeltaConfigs, rank_before \in 1..50, game_result \in {"win", "loss", "tie"} :
          probe = [kind |-> "xp_change", cfg |-> cfg, rank_before |-> rank_before,
                   game_result |-> game_result, done |-> FALSE, xp_change |-> 0]

\* xp_change of a row: int(xp_win * win_factor), int(xp_loss * loss_factor), or 0
ComputeXpChange ==
    /\ probe.kind = "xp_change"
    /\ ~probe.done
    /\ probe' = [probe EXCEPT
                   !.done = TRUE,
                   !.xp_change =
                       IF probe.game_result = "win"
                       THEN TruncDiv(probe.cfg.game_win
                                       * get_win_factor(probe.rank_before,
                                                        probe.cfg.win_factors), 100)
                       ELSE IF probe.game_result = "loss"
                       THEN TruncDiv(probe.cfg.game_loss
                                       * get_loss_factor(probe.rank_before,
                                                         probe.cfg.loss_factors), 100)
                       ELSE 0]
    /\ UNCHANGED <<runVars, rank_probe>>

NextDelta == ComputeXpChange

SpecDelta == InitDelta /\ [][NextDelta]_vars

-----------------------------------------------------------------------------
(* The classifier on its own: one export under the override files *)

\* manual_playlists.json / manualranked.json contents that may list export f
ClassifyManuals(f) == {EmptyMap, f :> PLAYLIST_TOURNAMENT_1, f :> "Ranked MLG 4v4"}

\* manualunranked.json contents that may list export f
ClassifyUnranked(f) == {EmptyMap, f :> None}

InitClassify ==
    /\ InitRun
    /\ rank_probe = NoProbe
    /\ \E f \in DOMAIN GameFiles :
         \E manual \in ClassifyManuals(f), manual_unranked \in ClassifyUnranked(f) :
            probe = [kind |-> "classify", file |-> f, manual |-> manual,
                     manual_unranked |-> manual_unranked, done |-> FALSE,
                     playlist |-> None]

\* playlist = determine_playlist(file_path, ...) of Step 2
Classify ==
    /\ probe.kind = "classify"
    /\ ~probe.done
    /\ probe' = [probe EXCEPT
                   !.done = TRUE,
                   !.playlist = determine_playlist(impl, probe.file, probe.manual,
                                                   probe.manual_unranked)]
    /\ UNCHANGED <<runVars, rank_probe>>

NextClassify == Classify

SpecClassify == InitClassify /\ [][NextClassify]_vars

-----------------------------------------------------------------------------
(* Series detection: the matches of one playlist cut into series *)

\* decimal digits of n as character codes, without padding
RECURSIVE Digits(_)
Digits(n) == IF n < 10 THEN <<48 + n>> ELSE Digits(n \div 10) \o <<48 + (n % 10)>>

\* the Start Time cell as the exports write it: "12/9/2025 7:45"
StartTimeText(t) ==
    Digits(t.month) \o <<47>> \o Digits(t.day) \o <<47>> \o Digits(t.year) \o <<32>>
        \o Digits(t.hour) \o <<58>> \o Digits(t.minute \div 10) \o Digits(t.minute % 10)

\* datetime.strptime(timestamp_str, '%m/%d/%Y %H:%M'), as its comparison key
parse_timestamp(t) == <<t.year, t.month, t.day, t.hour, t.minute>>

\* a < b for Python strings and for datetimes: the first differing position decides
RECURSIVE KeyLess(_, _)
KeyLess(a, b) ==
    IF b = <<>> THEN FALSE
    ELSE IF a = <<>> THEN TRUE
    ELSE IF Head(a) # Head(b) THEN Head(a) < Head(b)
    ELSE KeyLess(Tail(a), Tail(b))

\* the sort key of detect_series: the parsed time, or the cell's text
get_game_time(im, game) ==
    IF im = "populate" THEN parse_timestamp(game.start_time)
    ELSE StartTimeText(game.start_time)

\* sorted(games, key=...): stable
RECURSIVE InsertByTime(_, _, _)
InsertByTime(im, game, s) ==
    IF s = <<>> THEN <<game>>
    ELSE IF KeyLess(get_game_time(im, game), get_game_time(im, Head(s)))
         THEN <<game>> \o s
         ELSE <<Head(s)>> \o InsertByTime(im, game, Tail(s))

RECURSIVE SortByTime(_, _)
SortByTime(im, s) ==
    IF s = <<>> THEN <<>>
    ELSE InsertByTime(im, s[Len(s)], SortByTime(im, SubSeq(s, 1, Len(s) - 1)))

\* the start times of a playlist's matches, in chronological order
SeriesStarts ==
    <<[month |-> 12, day |-> 5,  year |-> 2025, hour |-> 20, minute |-> 15],
      [month |-> 12, day |-> 5,  year |-> 2025, hour |-> 20, minute |-> 40],
      [month |-> 12, day |-> 5,  year |-> 2025, hour |-> 21, minute |-> 5],
      [month |-> 12, day |-> 28, year |-> 2025, hour |-> 19, minute |-> 30],
      [month |-> 12, day |-> 28, year |-> 2025, hour |-> 19, minute |-> 55]>>

\* rosters and results a match of the playlist can have
SeriesKinds ==
    <<[red |-> "Ace", blue |-> "Bob", red_score |-> 15, blue_score |-> 7],
      [red |-> "Ace", blue |-> "Bob", red_score |-> 8,  blue_score |-> 15],
      [red |-> "ace", blue |-> "Bob", red_score |-> 9,  blue_score |-> 9],
      [red |-> "Bob", blue |-> "Ace", red_score |-> 15, blue_score |-> 11],
      [red |-> "Ace", blue |-> "Zed", red_score |-> 15, blue_score |-> 3],
      [red |-> "Ace", blue |-> "Zed", red_score |-> 4,  blue_score |-> 15]>>

\* the game dict of the match played at SeriesStarts[slot]
SeriesGame(slot, kind) ==
    [source_file |-> slot, start_time |-> SeriesStarts[slot],
     players |-> <<Row(SeriesKinds[kind].red, "Red", SeriesKinds[kind].red_score),
                   Row(SeriesKinds[kind].blue, "Blue", SeriesKinds[kind].blue_score)>>]

\* the names of the rows of one team
TeamNames(game, team) ==
    {game.players[i].name : i \in {j \in DOMAIN game.players : game.players[j].team = team}}

\* the summed score_numeric of the rows of one team
TeamTotal(game, team) ==
    LET idx == {i \in DOMAIN game.players : game.players[i].team = team}
    IN SumSet(idx, [i \in idx |-> game.players[i].score_numeric])

\* game_winner of detect_series: winners as determine_winners_losers(game)
\* gives them, then the team of the first row whose name is among them
game_winner(game) ==
    LET winners ==
            IF TeamNames(game, "Red") = {} \/ TeamNames(game, "Blue") = {} THEN {}
            ELSE IF TeamTotal(game, "Red") = TeamTotal(game, "Blue") THEN {}
            ELSE IF TeamTotal(game, "Red") > TeamTotal(game, "Blue")
            THEN TeamNames(game, "Red")
            ELSE TeamNames(game, "Blue")
        hits == {i \in DOMAIN game.players : game.players[i].name \in winners}
    IN IF hits = {} THEN None
       ELSE LET first == CHOOSE i \in hits : \A j \in hits : i <= j
            IN IF game.players[first].team \in {"Red", "Blue"}
               THEN game.players[first].team
               ELSE None

get_team_signature(game) ==
    <<{Lower(n) : n \in TeamNames(game, "Red")}, {Lower(n) : n \in TeamNames(game, "Blue")}>>

\* a finalization that names Red the winner whenever Red won a game
_finalize_series_red(series) ==
    [series EXCEPT !.series_type = "Custom",
                   !.winner = IF series.red_wins > 0 THEN "Red" ELSE "Tie"]

\* _finalize_series: series type and wins needed from the game count, then
\* the winner
_finalize_series(series) ==
    LET total_games == Len(series.games)
        series_type == IF total_games <= 3 THEN "Bo3"
                       ELSE IF total_games <= 5 THEN "Bo5"
                       ELSE IF total_games <= 7 THEN "Bo7"
                       ELSE "Custom"
        wins_needed == IF total_games <= 3 THEN 2
                       ELSE IF total_games <= 5 THEN 3
                       ELSE IF total_games <= 7 THEN 4
                       ELSE (total_games \div 2) + 1
    IN [series EXCEPT
          !.series_type = series_type,
          !.winner = IF series.red_wins >= wins_needed THEN "Red"
                     ELSE IF series.blue_wins >= wins_needed THEN "Blue"
                     ELSE IF series.red_wins > series.blue_wins THEN "Red"
                     ELSE IF series.blue_wins > series.red_wins THEN "Blue"
                     ELSE "Tie"]

\* a series as it is appended to series_list: finalized by populate_stats.py,
\* left as it is by BACKUPpopulate_stats.py
Closed(im, series) == IF im = "populate" THEN _finalize_series(series) ELSE series

\* the series a game opens; BACKUPpopulate_stats.py keeps no win counts and
\* names no winner
NewSeries(im, series_counter, game, winner) ==
    IF im = "populate"
    THEN [series_id |-> series_counter, red_team |-> TeamNames(game, "Red"),
          blue_team |-> TeamNames(game, "Blue"),
          games |-> <<[source_file |-> game.source_file, winner |-> winner]>>,
          red_wins |-> IF winner = "Red" THEN 1 ELSE 0,
          blue_wins |-> IF winner = "Blue" THEN 1 ELSE 0,
          winner |-> "Ongoing", series_type |-> "Custom"]
    ELSE [series_id |-> series_counter, red_team |-> TeamNames(game, "Red"),
          blue_team |-> TeamNames(game, "Blue"),
          games |-> <<[source_file |-> game.source_file, winner |-> winner]>>]

\* the current series with one more game
AddGame(im, series, game, winner) ==
    IF im = "populate"
    THEN [series EXCEPT
            !.games = Append(@, [source_file |-> game.source_file, winner |-> winner]),
            !.red_wins = IF winner = "Red" THEN @ + 1 ELSE @,
            !.blue_wins = IF winner = "Blue" THEN @ + 1 ELSE @]
    ELSE [series EXCEPT !.games = Append(@, [source_file |-> game.source_file, winner |-> winner])]

\* the loop of detect_series over the sorted games; team_sig is the signature
\* of the current series, current is <<>> or <<the current series>>
RECURSIVE SeriesLoop(_, _, _, _, _)
SeriesLoop(im, sorted_games, series_list, current, team_sig) ==
    IF sorted_games = <<>>
    THEN IF current = <<>> THEN series_list
         ELSE Append(series_list, Closed(im, current[1]))
    ELSE IF current # <<>> /\ team_sig = get_team_signature(Head(sorted_games))
    THEN SeriesLoop(im, Tail(sorted_games), series_list,
                    <<AddGame(im, current[1], Head(sorted_games),
                                   game_winner(Head(sorted_games)))>>,
                    team_sig)
    ELSE SeriesLoop(im, Tail(sorted_games),
                    IF current = <<>> THEN series_list
                    ELSE Append(series_list, Closed(im, current[1])),
                    <<NewSeries(im, Len(series_list) + Len(current) + 1,
                                Head(sorted_games), game_winner(Head(sorted_games)))>>,
                    get_team_signature(Head(sorted_games)))

detect_series(im, games) == SeriesLoop(im, SortByTime(im, games), <<>>, <<>>, <<{}, {}>>)

\* most matches a playlist holds when its series are detected
MaxSeriesGames == 5

\* the playlist's matches as games_by_playlist lists them: oldest first, or
\* newest first
PlaylistGames(kinds, newest_first) ==
    [i \in DOMAIN kinds |->
        IF newest_first THEN SeriesGame(Len(kinds) + 1 - i, kinds[Len(kinds) + 1 - i])
        ELSE SeriesGame(i, kinds[i])]

InitSeries ==
    /\ InitRun
    /\ rank_probe = NoProbe
    /\ \E n \in 1..MaxSeriesGames :
         \E kinds \in [1..n -> DOMAIN SeriesKinds], newest_first \in BOOLEAN :
            probe = [kind |-> "series", kinds |-> kinds,
                     games |-> PlaylistGames(kinds, newest_first),
                     done |-> FALSE, series |-> <<>>]

\* playlist_series = detect_series(playlist_games, get_display_name)
DetectSeries ==
    /\ probe.kind = "series"
    /\ ~probe.done
    /\ probe' = [probe EXCEPT !.done = TRUE, !.series = detect_series(impl, probe.games)]
    /\ UNCHANGED <<runVars, rank_probe>>

SpecSeries == InitSeries /\ [][DetectSeries]_vars

\* series handed to _finalize_series: win counts that its games can give
MaxFinalizeGames == 9

InitFinalize ==
    /\ InitRun
    /\ impl = "populate"
    /\ rank_probe = NoProbe
    /\ \E n \in 1..MaxFinalizeGames :
         \E red_wins \in 0..n : \E blue_wins \in 0..(n - red_wins) :
            probe = [kind |-> "finalize", done |-> FALSE,
                     series |-> [series_id |-> 1, red_team |-> {"Ace"},
                                 blue_team |-> {"Bob"},
                                 games |-> [i \in 1..n |->
                                              [source_file |-> i,
                                               winner |-> IF i <= red_wins THEN "Red"
                                                          ELSE IF i <= red_wins + blue_wins
                                                          THEN "Blue" ELSE None]],
                                 red_wins |-> red_wins, blue_wins |-> blue_wins,
                                 winner |-> "Ongoing", series_type |-> "Custom"]]

\* __finalize_series(current_series)
FinalizeSeries ==
    /\ probe.kind = "finalize"
    /\ ~probe.done
    /\ probe' = [probe EXCEPT !.done = TRUE, !.series = _finalize_series(probe.series)]
    /\ UNCHANGED <<runVars, rank_probe>>

SpecFinalize == InitFinalize /\ [][FinalizeSeries]_vars

-----------------------------------------------------------------------------
(* Held-time strings (Oddball scores) *)

\* the pieces time_str.split(':') can give: digits, nothing, or no number
DigitsPart(n) == [text |-> "digits", value |-> n]
EmptyPart == [text |-> "empty", value |-> 0]
JunkPart == [text |-> "junk", value |-> 0]

\* int(part) raises ValueError on a piece that is not digits
IntRaises(part) == part.text # "digits"

\* time_to_seconds of populate_stats.py on the pieces of a held-time string:
\* any int() that raises lands in the except clause, which returns 0
time_to_seconds_populate(parts) ==
    IF parts = <<EmptyPart>> THEN 0
    ELSE IF \E i \in DOMAIN parts : IntRaises(parts[i]) THEN 0
    ELSE IF Len(parts) = 1 THEN parts[1].value
    ELSE IF Len(parts) = 2 THEN parts[1].value * 60 + parts[2].value
    ELSE IF Len(parts) = 3
    THEN parts[1].value * 3600 + parts[2].value * 60 + parts[3].value
    ELSE 0

\* time_to_seconds of BACKUPpopulate_stats.py: an empty piece of a two- or
\* three-piece string counts as 0
time_to_seconds_backup(parts) ==
    IF parts = <<EmptyPart>> THEN 0
    ELSE IF \E i \in DOMAIN parts : parts[i].text = "junk" THEN 0
    ELSE IF Len(parts) = 1 THEN parts[1].value
    ELSE IF Len(parts) = 2 THEN parts[1].value * 60 + parts[2].value
    ELSE IF Len(parts) = 3
    THEN parts[1].value * 3600 + parts[2].value * 60 + parts[3].value
    ELSE 0

time_to_seconds(im, parts) ==
    IF im = "populate" THEN time_to_seconds_populate(parts)
    ELSE time_to_seconds_backup(parts)

\* most ':'-separated pieces of a held-time string
MaxHeldParts == 3

\* the pieces a held-time string is made of
HeldParts == {EmptyPart, JunkPart, DigitsPart(0), DigitsPart(1), DigitsPart(5),
              DigitsPart(56)}

InitHeld ==
    /\ InitRun
    /\ rank_probe = NoProbe
    /\ \E n \in 1..MaxHeldParts : \E parts \in [1..n -> HeldParts] :
          probe = [kind |-> "held", parts |-> parts, done |-> FALSE, seconds |-> 0]

\* time_to_seconds(p.get('score', '0'))
ConvertHeld ==
    /\ probe.kind = "held"
    /\ ~probe.done
    /\ probe' = [probe EXCEPT !.done = TRUE, !.seconds = time_to_seconds(impl, probe.parts)]
    /\ UNCHANGED <<runVars, rank_probe>>

SpecHeld == InitHeld /\ [][ConvertHeld]_vars

-----------------------------------------------------------------------------
(* Match winners and team scores as the match log and the embeds record them *)

\* score_numeric of parse_score: M:SS read as minutes and seconds (further
\* pieces ignored), any int() that raises gives 0
parse_score(parts) ==
    IF Len(parts) = 1
    THEN IF IntRaises(parts[1]) THEN 0 ELSE parts[1].value
    ELSE IF IntRaises(parts[1]) \/ IntRaises(parts[2]) THEN 0
    ELSE parts[1].value * 60 + parts[2].value

\* a Post Game Report row with its score cell
ScoreCellRow(name, team, parts) ==
    [name |-> name, team |-> team, score |-> parts, score_numeric |-> parse_score(parts)]

\* a 1v1 game dict: Red Ace against Blue Bob
LoggedGame(game_type, variant_name, red, blue, detailed_stats) ==
    [game_type |-> game_type, variant_name |-> variant_name,
     players |-> <<ScoreCellRow("Ace", "Red", red), ScoreCellRow("Bob", "Blue", blue)>>,
     detailed_stats |-> detailed_stats]

\* the games whose log entries are built
LoggedGames ==
    <<LoggedGame("Slayer", "slayer", <<DigitsPart(15)>>, <<DigitsPart(7)>>, EmptyMap),
      LoggedGame("Slayer", "slayer", <<DigitsPart(7)>>, <<DigitsPart(15)>>, EmptyMap),
      LoggedGame("Slayer", "slayer", <<DigitsPart(9)>>, <<DigitsPart(9)>>, EmptyMap),
      LoggedGame("CTF", "ctf", <<DigitsPart(30)>>, <<DigitsPart(50)>>,
                 "Ace" :> 3 @@ "Bob" :> 1),
      LoggedGame("CTF", "ctf", <<DigitsPart(2)>>, <<DigitsPart(2)>>, EmptyMap),
      LoggedGame("Oddball", "oddball", <<DigitsPart(1), DigitsPart(5)>>,
                 <<DigitsPart(0), DigitsPart(56)>>, EmptyMap),
      LoggedGame("Oddball", "oddball", <<EmptyPart, DigitsPart(56)>>,
                 <<DigitsPart(0), DigitsPart(30)>>, EmptyMap),
      LoggedGame("Oddball", "oddball", <<DigitsPart(1), DigitsPart(0), DigitsPart(0)>>,
                 <<DigitsPart(59), DigitsPart(0)>>, EmptyMap)>>

\* discord_name of the registered players, by in-game name
DisplayNames ==
    {EmptyMap, "Ace" :> "AceDiscord", "Bob" :> "BobDiscord",
     "Ace" :> "AceDiscord" @@ "Bob" :> "BobDiscord"}

get_display_name(names, player_name) == Get(names, player_name, player_name)

\* is_ctf: populate_stats.py also looks at the variant name
is_ctf(im, game) ==
    \/ Contains(Lower(game.game_type), "ctf")
    \/ Contains(Lower(game.game_type), "capture")
    \/ im = "populate" /\ (\/ Contains(Lower(game.variant_name), "ctf")
                           \/ Contains(Lower(game.variant_name), "flag"))

is_oddball(im, game) ==
    \/ Contains(Lower(game.game_type), "oddball")
    \/ im = "populate" /\ (\/ Contains(Lower(game.variant_name), "oddball")
                           \/ Contains(Lower(game.game_type), "ball"))

\* detailed.get(name, {}).get('ctf_scores', 0); BACKUPpopulate_stats.py
\* matches the names in lowercase
CtfScores(im, detailed_stats, name) ==
    IF im = "populate" THEN Get(detailed_stats, name, 0)
    ELSE IF \E k \in DOMAIN detailed_stats : Lower(k) = Lower(name)
         THEN detailed_stats[CHOOSE k \in DOMAIN detailed_stats : Lower(k) = Lower(name)]
         ELSE 0

\* the score of one team: flag captures, held seconds, or score_numeric
team_score(im, game, team, ctf, oddball) ==
    LET idx == {i \in DOMAIN game.players : game.players[i].team = team}
    IN SumSet(idx, [i \in idx |->
          IF ctf /\ game.detailed_stats # EmptyMap
          THEN CtfScores(im, game.detailed_stats, game.players[i].name)
          ELSE IF oddball THEN time_to_seconds(im, game.players[i].score)
          ELSE game.players[i].score_numeric])

\* winners of determine_winners_losers(game): populate_stats.py has no
\* Oddball branch there
winners_of(im, game) ==
    LET oddball == im = "backup" /\ is_oddball(im, game)
        red == team_score(im, game, "Red", is_ctf(im, game), oddball)
        blue == team_score(im, game, "Blue", is_ctf(im, game), oddball)
    IN IF TeamNames(game, "Red") = {} \/ TeamNames(game, "Blue") = {} THEN {}
       ELSE IF red = blue THEN {}
       ELSE IF red > blue THEN TeamNames(game, "Red")
       ELSE TeamNames(game, "Blue")

\* red_score, blue_score and winner of a match_entry of the match log
match_entry(im, game, names) ==
    [red_score |-> team_score(im, game, "Red", is_ctf(im, game), is_oddball(im, game)),
     blue_score |-> team_score(im, game, "Blue", is_ctf(im, game), is_oddball(im, game)),
     winner |-> IF \E p \in winners_of(im, game) :
                      p \in {get_display_name(names, n) : n \in TeamNames(game, "Red")}
                THEN "Red"
                ELSE IF winners_of(im, game) # {} THEN "Blue"
                ELSE "Tie"]

\* score and winner of build_game_entry_for_embed (BACKUPpopulate_stats.py)
build_game_entry_for_embed(game) ==
    LET ctf == Contains(Lower(game.game_type), "ctf")
                 \/ Contains(Lower(game.game_type), "capture")
        oddball == Contains(Lower(game.game_type), "oddball")
        red_score == team_score("backup", game, "Red", ctf, oddball)
        blue_score == team_score("backup", game, "Blue", ctf, oddball)
    IN [red_score |-> red_score, blue_score |-> blue_score,
        winner |-> IF red_score > blue_score THEN "RED"
                   ELSE IF blue_score > red_score THEN "BLUE"
                   ELSE "TIE"]

\* no entry built yet
NoEntry == [red_score |-> 0, blue_score |-> 0, winner |-> "none"]

InitLog ==
    /\ InitRun
    /\ rank_probe = NoProbe
    /\ \E g \in DOMAIN LoggedGames, names \in DisplayNames :
          probe = [kind |-> "log", game |-> g, names |-> names,
                   entry |-> NoEntry, embed |-> NoEntry]

\* matches_data['matches'].append(match_entry)
LogMatch ==
    /\ probe.kind = "log"
    /\ probe.entry = NoEntry
    /\ probe' = [probe EXCEPT !.entry = match_entry(impl, LoggedGames[probe.game],
                                                    probe.names)]
    /\ UNCHANGED <<runVars, rank_probe>>

\* game_entry = build_game_entry_for_embed(game, get_display_name, ...)
EmbedGame ==
    /\ probe.kind = "log"
    /\ impl = "backup"
    /\ probe.embed = NoEntry
    /\ probe' = [probe EXCEPT !.embed = build_game_entry_for_embed(LoggedGames[probe.game])]
    /\ UNCHANGED <<runVars, rank_probe>>

NextLog == LogMatch \/ EmbedGame

SpecLog == InitLog /\ [][NextLog]_vars

-----------------------------------------------------------------------------
(* Name resolution on its own: one name under the registries of a run *)

UNICODE_NAME_MAPPINGS ==
    [n \in {"isis rinsy isis", "isisrinsyisis"} |-> "210187331066396672"]

\* name_stripped.replace(' ', '')
NoSpaces(name) == IF name = "isis rinsy isis" THEN "isisrinsyisis" ELSE name

\* the first of the forms of the name that the hardcoded table lists, if any
HardcodedForms(player_name) ==
    SelectSeq(<<player_name, Lower(player_name), Lower(player_name),
                NoSpaces(Lower(player_name))>>,
              LAMBDA n : n \in DOMAIN UNICODE_NAME_MAPPINGS)

\* user ids whose discord_name in rankstats is the lowercased name
DiscordNameMatches(name_lower, registry) ==
    {u \in DOMAIN registry : Lower(registry[u].discord_name) = name_lower}

\* resolve_player_to_discord of BACKUPpopulate_stats.py: hardcoded names,
\* identity file and registry, profile lookup, discord_name in rankstats
resolve_player_to_discord_backup(player_name, identity_name_to_mac, mac_to_discord, profile_lookup, registry) ==
    IF HardcodedForms(player_name) # <<>>
    THEN UNICODE_NAME_MAPPINGS[Head(HardcodedForms(player_name))]
    ELSE IF resolve_player_to_discord(player_name, identity_name_to_mac, mac_to_discord) # None
    THEN resolve_player_to_discord(player_name, identity_name_to_mac, mac_to_discord)
    ELSE IF Lower(player_name) \in DOMAIN profile_lookup
    THEN profile_lookup[Lower(player_name)]
    ELSE IF DiscordNameMatches(Lower(player_name), registry) # {}
    THEN CHOOSE u \in DiscordNameMatches(Lower(player_name), registry) : TRUE
    ELSE None

\* in-game names to resolve
ResolvedNames == {"iSiS RiNsY iSiS", "Ace", "Zed"}

InitResolve ==
    /\ InitRun
    /\ rank_probe = NoProbe
    /\ \E player_name \in ResolvedNames :
         \E identity_name_to_mac \in {EmptyMap, Lower(player_name) :> "aa11"},
            mac_to_discord \in {EmptyMap, "aa11" :> "1001"},
            profile_lookup \in {EmptyMap, Lower(player_name) :> "1002"},
            registry \in {"1003" :> [discord_name |-> "Somebody"],
                           "1003" :> [discord_name |-> player_name]} :
            probe = [kind |-> "resolve", player_name |-> player_name,
                     identity_name_to_mac |-> identity_name_to_mac,
                     mac_to_discord |-> mac_to_discord,
                     profile_lookup |-> profile_lookup, rankstats |-> registry,
                     done |-> FALSE, user_id |-> None]

\* user_id = resolve_player_to_discord(player_name, ...)
Resolve ==
    /\ probe.kind = "resolve"
    /\ ~probe.done
    /\ probe' = [probe EXCEPT
                   !.done = TRUE,
                   !.user_id = IF impl = "populate"
                               THEN resolve_player_to_discord(probe.player_name,
                                        probe.identity_name_to_mac, probe.mac_to_discord)
                               ELSE resolve_player_to_discord_backup(probe.player_name,
                                        probe.identity_name_to_mac, probe.mac_to_discord,
                                        probe.profile_lookup, probe.rankstats)]
    /\ UNCHANGED <<runVars, rank_probe>>

SpecResolve == InitResolve /\ [][Resolve]_vars

-----------------------------------------------------------------------------
(* The address-to-identity registry built from players.json *)

\* a hardware address as players.json writes it: its hex digits and the
\* separator between the bytes
MacText(digits, separator) == [digits |-> digits, separator |-> separator]

\* normalize_mac: lowercase without ':', '-' and ' '; BACKUPpopulate_stats.py
\* leaves spaces in
normalize_mac(im, mac) ==
    IF im = "backup" /\ mac.separator = " " /\ mac.digits # ""
    THEN IF mac.digits = "aa11" THEN "aa 11" ELSE "bb 22"
    ELSE mac.digits

\* mac_to_user after the addresses of one user
RECURSIVE AddMacs(_, _, _, _)
AddMacs(im, mac_to_user, user_id, mac_addresses) ==
    IF mac_addresses = <<>> THEN mac_to_user
    ELSE AddMacs(im,
                 IF im = "populate" /\ normalize_mac(im, Head(mac_addresses)) = ""
                 THEN mac_to_user
                 ELSE Put(mac_to_user, normalize_mac(im, Head(mac_addresses)), user_id),
                 user_id, Tail(mac_addresses))

\* the loop over players.items(), in the order of the file
RECURSIVE MacLoop(_, _, _)
MacLoop(im, mac_to_user, players) ==
    IF players = <<>> THEN mac_to_user
    ELSE MacLoop(im, AddMacs(im, mac_to_user, Head(players).user_id,
                             Head(players).mac_addresses),
                 Tail(players))

build_mac_to_discord_lookup(im, players) == MacLoop(im, EmptyMap, players)

\* most identities in players.json
MaxPlayers == 3

\* the user ids of players.json, in the order they were registered
RegisteredIds == <<"1001", "1002", "1003">>

\* the mac_addresses lists an identity can carry
MacLists ==
    {<<>>, <<MacText("aa11", ":")>>, <<MacText("aa11", "-")>>, <<MacText("bb22", "")>>,
     <<MacText("aa11", " ")>>, <<MacText("bb22", ":"), MacText("aa11", ":")>>,
     <<MacText("", "")>>}

InitMacs ==
    /\ InitRun
    /\ rank_probe = NoProbe
    /\ \E n \in 1..MaxPlayers : \E macs \in [1..n -> MacLists] :
          probe = [kind |-> "macs",
                   players |-> [i \in 1..n |-> [user_id |-> RegisteredIds[i],
                                                mac_addresses |-> macs[i]]],
                   done |-> FALSE, mac_to_discord |-> EmptyMap]

\* mac_to_discord = build_mac_to_discord_lookup(players)
BuildMacs ==
    /\ probe.kind = "macs"
    /\ ~probe.done
    /\ probe' = [probe EXCEPT
                   !.done = TRUE,
                   !.mac_to_discord = build_mac_to_discord_lookup(impl, probe.players)]
    /\ UNCHANGED <<runVars, rank_probe>>

SpecMacs == InitMacs /\ [][BuildMacs]_vars

-----------------------------------------------------------------------------
(* Runs of the batch driver while the identity files change *)

\* the names the identity files may come to list, and the addresses they give
LinkableNames == {"Zed"}

InitMerge ==
    /\ InitRun
    /\ rank_probe = NoProbe
    /\ probe = [kind |-> "identities", identity_name_to_mac |-> IdentityNameToMac,
                linked_at |-> 0, ranks_before |-> EmptyMap, ids_before |-> EmptyMap]

\* between two runs an identity file gains the hardware address of a name;
\* the persisted standings and name table of that moment are remembered
LinkName(name, mac) ==
    /\ probe.kind = "identities"
    /\ pc = "idle"
    /\ Lower(name) \notin DOMAIN probe.identity_name_to_mac
    /\ probe' = [probe EXCEPT
                   !.identity_name_to_mac = Put(@, Lower(name), mac),
                   !.linked_at = runs,
                   !.ranks_before = ranks_json,
                   !.ids_before = Get(processed_state, "player_name_to_id", EmptyMap)]
    /\ UNCHANGED <<runVars, rank_probe>>

NextMerge ==
    \/ Next
    \/ \E name \in LinkableNames, mac \in DOMAIN MacToDiscord : LinkName(name, mac)

SpecMerge == InitMerge /\ [][NextMerge]_vars

-----------------------------------------------------------------------------
(* A single full rebuild, start to end, as one function of its inputs *)

RECURSIVE ReplayAll(_, _, _, _, _, _)
ReplayAll(im, acc0, history, games, gp, p2id) ==
    IF games = <<>> THEN [acc |-> acc0, rankhistory |-> history]
    ELSE LET r == ReplayGame(im, acc0, history, Head(games), gp[Head(games)], p2id)
         IN ReplayAll(im, r.acc, r.rankhistory, Tail(games), gp, p2id)

\* per-name final standings of a run over fs that starts without saved state
FullRebuild(im, fs, manual, seed) ==
    LET r == RunStart(im, fs, manual, DefaultProcessedState, EmptyMap, FALSE, seed)
        final == ReplayAll(im, r.acc, r.rankhistory, r.queue, r.game_playlist,
                           r.player_to_id)
        rs == Consolidate(im, r.rankstats, r.all_player_names, r.player_to_id,
                          final.acc, r.player_game_stats)
    IN StandingsByName(RanksData(rs), r.player_to_id, r.all_player_names)

-----------------------------------------------------------------------------
(* A match with and without a dedicated-server row *)

\* the export without the row, and the exports that add one
PlainExport == 19
DedicatedExports == {20, 21}

\* what a run over fs that starts without saved state leaves behind
RunOutcome(im, fs, manual, seed) ==
    LET r == RunStart(im, fs, manual, DefaultProcessedState, EmptyMap, FALSE, seed)
        final == ReplayAll(im, r.acc, r.rankhistory, r.queue, r.game_playlist,
                           r.player_to_id)
        rs == Consolidate(im, r.rankstats, r.all_player_names, r.player_to_id,
                          final.acc, r.player_game_stats)
    IN [player_to_id |-> r.player_to_id,
        game_playlist |-> r.game_playlist,
        ranks |-> RanksData(rs),
        rankhistory |-> final.rankhistory]

\* the stats directory holds the match exported with a dedicated-server row,
\* next to other exports; forced: the override file assigns it to Head to Head
InitDedicated ==
    /\ \E fs \in SUBSET FileNames, f \in DedicatedExports, forced \in BOOLEAN :
          /\ files = fs \cup {f}
          /\ manual_playlists = IF forced THEN f :> PLAYLIST_HEAD_TO_HEAD ELSE EmptyMap
          /\ probe = [kind |-> "dedicated", file |-> f, forced |-> forced]
    /\ impl \in Impls
    /\ processed_state = DefaultProcessedState
    /\ ranks_json = EmptyMap
    /\ rankhistory_json = EmptyMap
    /\ pc = "idle"
    /\ run_mode = "none"
    /\ runs = 0
    /\ needs_full_rebuild = FALSE
    /\ new_files = {}
    /\ loaded_state = DefaultProcessedState
    /\ rankstats = RankstatsJson
    /\ game_playlist = EmptyMap
    /\ ranked_games = <<>>
    /\ queue = <<>>
    /\ player_to_id = EmptyMap
    /\ all_player_names = {}
    /\ acc = EmptyMap
    /\ player_game_stats = EmptyMap
    /\ rankhistory = EmptyMap
    /\ last_rows = <<>>
    /\ last_game = [file |-> 0, acc |-> EmptyMap]
    /\ applied = <<>>
    /\ credited = EmptyMap
    /\ run_in = NoRun
    /\ prev_full = NoFull
    /\ since_full = 0
    /\ rank_probe = NoProbe

NextDedicated ==
    \/ StartRun(FALSE, 0)
    \/ ReplayStep
    \/ Finish

SpecDedicated == InitDedicated /\ [][NextDedicated]_vars

-----------------------------------------------------------------------------
(* The files a run writes, one open(..., 'w') after the other *)

MaxSnapshots == 2       \* runs that write their output files

get_playlist_files(playlist_name) ==
    [matches |-> playlist_name \o "_matches.json", stats |-> playlist_name \o "_stats.json"]

\* sets of playlists with ranked games, in the order main() iterates them
PlaylistOrders == {<<PLAYLIST_HEAD_TO_HEAD>>, <<PLAYLIST_MLG_4V4, PLAYLIST_HEAD_TO_HEAD>>}

AllPlaylistFiles ==
    UNION {{get_playlist_files(pl).matches, get_playlist_files(pl).stats} :
              pl \in {PLAYLIST_HEAD_TO_HEAD, PLAYLIST_MLG_4V4}}

OutputFiles ==
    {"customgames.json", "ranks.json", "rankhistory.json", "processed_state.json"}
        \cup AllPlaylistFiles

\* the files main() opens for writing, in the order it does; each entry is
\* the file and what is dumped into it
WriteOrder(im, full, playlists, untagged) ==
    (IF im = "populate" /\ full
     THEN <<[file |-> "customgames.json", content |-> "empty list"]>> ELSE <<>>)
    \o <<[file |-> "ranks.json", content |-> "data"]>>
    \o [k \in DOMAIN playlists |->
           [file |-> get_playlist_files(playlists[k]).matches, content |-> "data"]]
    \o [k \in DOMAIN playlists |->
           [file |-> get_playlist_files(playlists[k]).stats, content |-> "data"]]
    \o (IF untagged THEN <<[file |-> "customgames.json", content |-> "data"]>> ELSE <<>>)
    \o <<[file |-> "rankhistory.json", content |-> "data"]>>
    \o (IF im = "populate"
        THEN <<[file |-> "ranks.json", content |-> "data with series"]>> ELSE <<>>)
    \o <<[file |-> "processed_state.json", content |-> "data"]>>

InitSnapshot ==
    /\ InitRun
    /\ rank_probe = NoProbe
    /\ probe = [kind |-> "snapshot", run |-> 0, status |-> "idle", todo |-> <<>>,
                disk |-> [f \in OutputFiles |-> [run |-> 0, content |-> "data"]],
                before |-> [f \in OutputFiles |-> [run |-> 0, content |-> "data"]]]

\* main() has computed everything it is going to write
BeginWrites(full, playlists, untagged) ==
    /\ probe.kind = "snapshot"
    /\ probe.status # "writing"
    /\ probe.run < MaxSnapshots
    /\ probe' = [probe EXCEPT
                   !.run = @ + 1,
                   !.status = "writing",
                   !.todo = WriteOrder(impl, full, playlists, untagged),
                   !.before = probe.disk]
    /\ UNCHANGED <<runVars, rank_probe>>

\* the next open(..., 'w') and json.dump
WriteFile ==
    /\ probe.kind = "snapshot"
    /\ probe.status = "writing"
    /\ probe.todo # <<>>
    /\ probe' = [probe EXCEPT
                   !.todo = Tail(@),
                   !.disk = [@ EXCEPT ![Head(probe.todo).file] =
                                [run |-> probe.run, content |-> Head(probe.todo).content]]]
    /\ UNCHANGED <<runVars, rank_probe>>

\* an exception ends the run before its next write
FailRun ==
    /\ probe.kind = "snapshot"
    /\ probe.status = "writing"
    /\ probe.todo # <<>>
    /\ probe' = [probe EXCEPT !.status = "failed", !.todo = <<>>]
    /\ UNCHANGED <<runVars, rank_probe>>

\* main() returns
CompleteRun ==
    /\ probe.kind = "snapshot"
    /\ probe.status = "writing"
    /\ probe.todo = <<>>
    /\ probe' = [probe EXCEPT !.status = "completed"]
    /\ UNCHANGED <<runVars, rank_probe>>

NextSnapshot ==
    \/ \E full \in BOOLEAN, playlists \in PlaylistOrders, untagged \in BOOLEAN :
          BeginWrites(full, playlists, untagged)
    \/ WriteFile
    \/ FailRun
    \/ CompleteRun

SpecSnapshot == InitSnapshot /\ [][NextSnapshot]_vars

-----------------------------------------------------------------------------
(* Runs of the batch driver while processed_state.json can get lost *)

\* between two runs the state file is deleted or damaged
LoseState(file) ==
    /\ pc = "idle"
    /\ runs > 0
    /\ processed_state \notin {MissingFile, UnreadableFile}
    /\ processed_state' = file
    /\ UNCHANGED <<impl, files, manual_playlists, ranks_json, rankhistory_json, pc,
                   run_mode, runs, runLocals, applied, credited, run_in, prev_full,
                   since_full, rank_probe, probe>>

NextLost ==
    \/ Next
    \/ \E file \in {MissingFile, UnreadableFile} : LoseState(file)

SpecLost == Init /\ [][NextLost]_vars

-----------------------------------------------------------------------------
(* Step 2: the loop that classifies and parses every export of the batch *)

\* pd.read_excel raises on an export that is no readable workbook; the
\* helpers of determine_playlist catch that and return 0, False and []
determine_playlist_unreadable(f, manual) ==
    IF f \in DOMAIN manual THEN normalize_playlist_name(manual[f]) ELSE None

\* parse_excel_file reads the sheets without a try: the game, or the exception
parse_excel_file(f, readable) ==
    IF readable THEN [raised |-> FALSE, game |-> GameFiles[f]]
    ELSE [raised |-> TRUE, game |-> EmptyMap]

InitBatch ==
    /\ InitRun
    /\ rank_probe = NoProbe
    /\ \E fs \in (SUBSET FileNames) \ {{}} :
         \E unreadable \in SUBSET fs, manual \in {EmptyMap, 3 :> PLAYLIST_HEAD_TO_HEAD} :
            probe = [kind |-> "batch", unreadable |-> unreadable, manual |-> manual,
                     listing |-> SortedSeq(fs), todo |-> SortedSeq(fs),
                     all_games |-> <<>>, status |-> "parsing"]

\* one iteration of the loop; an exception of parse_excel_file is caught
\* nowhere and ends main()
ParseNextFile ==
    /\ probe.kind = "batch"
    /\ probe.status = "parsing"
    /\ probe.todo # <<>>
    /\ LET f == Head(probe.todo)
           readable == f \notin probe.unreadable
           playlist == IF readable
                       THEN determine_playlist(impl, f, probe.manual, ManualUnranked)
                       ELSE determine_playlist_unreadable(f, probe.manual)
           parsed == parse_excel_file(f, readable)
       IN probe' = IF parsed.raised
                   THEN [probe EXCEPT !.status = "aborted"]
                   ELSE [probe EXCEPT
                           !.todo = Tail(@),
                           !.all_games = Append(@, [source_file |-> f,
                                                    playlist |-> playlist])]
    /\ UNCHANGED <<runVars, rank_probe>>

\* the loop has run through the listing
EndOfListing ==
    /\ probe.kind = "batch"
    /\ probe.status = "parsing"
    /\ probe.todo = <<>>
    /\ probe' = [probe EXCEPT !.status = "completed"]
    /\ UNCHANGED <<runVars, rank_probe>>

NextBatch == ParseNextFile \/ EndOfListing

SpecBatch == InitBatch /\ [][NextBatch]_vars

-----------------------------------------------------------------------------
(* The per-playlist match logs over several runs *)

MaxLogRuns == 2         \* runs that save the per-playlist files
LogExports == {1, 2, 3} \* exports that can be in the stats directory

\* the playlists main() saves files for
all_playlists(im) ==
    IF im = "populate"
    THEN <<PLAYLIST_MLG_4V4, PLAYLIST_TEAM_HARDCORE, PLAYLIST_DOUBLE_TEAM,
           PLAYLIST_HEAD_TO_HEAD>>
    ELSE <<PLAYLIST_MLG_4V4, PLAYLIST_TEAM_HARDCORE, PLAYLIST_DOUBLE_TEAM,
           PLAYLIST_HEAD_TO_HEAD, PLAYLIST_TOURNAMENT_1>>

\* the playlists an operator writes into the override file
OverridePlaylists == {PLAYLIST_HEAD_TO_HEAD, PLAYLIST_MLG_4V4, PLAYLIST_TOURNAMENT_1}

\* playlist -> source files of the <playlist>_matches.json files after a run:
\* a playlist without games is skipped and its file stays as it was
save_all_playlist_matches(im, game_playlists, logs) ==
    LET playlist_games(pl) ==
            FilterSeq(SortedSeq(DOMAIN game_playlists),
                      {f \in DOMAIN game_playlists : game_playlists[f] = pl})
        saved == {pl \in Range(all_playlists(im)) : playlist_games(pl) # <<>>}
    IN [pl \in (DOMAIN logs) \cup saved |->
           IF pl \in saved THEN playlist_games(pl) ELSE logs[pl]]

InitLogs ==
    /\ InitRun
    /\ rank_probe = NoProbe
    /\ probe = [kind |-> "match logs", files |-> {}, manual |-> EmptyMap,
                changed |-> FALSE, runs |-> 0, assigned |-> EmptyMap, logs |-> EmptyMap]

\* an export lands in the stats directory
AddExport(f) ==
    /\ probe.kind = "match logs"
    /\ f \notin probe.files
    /\ probe' = [probe EXCEPT !.files = @ \cup {f}, !.changed = TRUE]
    /\ UNCHANGED <<runVars, rank_probe>>

\* the operator assigns an export to a playlist in the override file
Override(f, playlist) ==
    /\ probe.kind = "match logs"
    /\ f \in probe.files
    /\ Get(probe.manual, f, None) # playlist
    /\ probe' = [probe EXCEPT !.manual = Put(@, f, playlist), !.changed = TRUE]
    /\ UNCHANGED <<runVars, rank_probe>>

\* a run that found changes: Step 2 classifies every export of the directory,
\* the saving step writes the match logs
SaveMatchLogs ==
    /\ probe.kind = "match logs"
    /\ probe.changed
    /\ probe.runs < MaxLogRuns
    /\ \E gp \in {[f \in probe.files |->
                     determine_playlist(impl, f, probe.manual, ManualUnranked)]} :
          probe' = [probe EXCEPT
                      !.changed = FALSE,
                      !.runs = @ + 1,
                      !.assigned = gp,
                      !.logs = save_all_playlist_matches(impl, gp, probe.logs)]
    /\ UNCHANGED <<runVars, rank_probe>>

NextLogs ==
    \/ \E f \in LogExports : AddExport(f)
    \/ \E f \in LogExports, playlist \in OverridePlaylists : Override(f, playlist)
    \/ SaveMatchLogs

SpecLogs == InitLogs /\ [][NextLogs]_vars

-----------------------------------------------------------------------------
(* First runs over a stats directory that already holds exports and overrides *)

\* the state before the first run: exports fs in the directory, the override
\* file holding manual, no output file written yet
InitDirectory(fs, manual) ==
    /\ files = fs
    /\ manual_playlists = manual
    /\ impl \in Impls
    /\ processed_state = DefaultProcessedState
    /\ ranks_json = EmptyMap
    /\ rankhistory_json = EmptyMap
    /\ pc = "idle"
    /\ run_mode = "none"
    /\ runs = 0
    /\ needs_full_rebuild = FALSE
    /\ new_files = {}
    /\ loaded_state = DefaultProcessedState
    /\ rankstats = RankstatsJson
    /\ game_playlist = EmptyMap
    /\ ranked_games = <<>>
    /\ queue = <<>>
    /\ player_to_id = EmptyMap
    /\ all_player_names = {}
    /\ acc = EmptyMap
    /\ player_game_stats = EmptyMap
    /\ rankhistory = EmptyMap
    /\ last_rows = <<>>
    /\ last_game = [file |-> 0, acc |-> EmptyMap]
    /\ applied = <<>>
    /\ credited = EmptyMap
    /\ run_in = NoRun
    /\ prev_full = NoFull
    /\ since_full = 0
    /\ rank_probe = NoProbe

\* playlist names an operator writes into the override file: a name the
\* programs know, an alias, and a name of the operator's own
OverrideNames == {PLAYLIST_TOURNAMENT_1, "Ranked MLG 4v4", "Clan Battle"}

OverrideFiles ==
    {EmptyMap} \cup {f :> name : f \in {1, 3}, name \in OverrideNames}

InitOverrides ==
    /\ \E fs \in SUBSET FileNames, manual \in OverrideFiles :
          InitDirectory(fs, manual)
    /\ probe = [kind |-> "overrides"]

NextOverrides ==
    \/ StartRun(FALSE, 0)
    \/ ReplayStep
    \/ Finish

SpecOverrides == InitOverrides /\ [][NextOverrides]_vars

-----------------------------------------------------------------------------
(* First runs over a directory that holds one more head-to-head export *)

\* the 1v1 match Ace 15 : Bob 7 exported with Red and Blue rows, and with rows
\* of no team
FreeForAllExport == 22
HeadToHeadExports == {PlainExport, FreeForAllExport}

InitHeadToHead ==
    /\ \E fs \in SUBSET FileNames, f \in HeadToHeadExports :
          /\ InitDirectory(fs \cup {f}, EmptyMap)
          /\ probe = [kind |-> "head to head", file |-> f]

NextHeadToHead ==
    \/ StartRun(FALSE, 0)
    \/ ReplayStep
    \/ Finish

SpecHeadToHead == InitHeadToHead /\ [][NextHeadToHead]_vars

-----------------------------------------------------------------------------
(* First runs over a registry whose entries carry ranking state *)

\* the entry of identity 1001 as the bot keeps it with flat totals only, and
\* with a highest rank and per-playlist standings
FlatEntry ==
    [xp |-> 500, rank |-> 30, wins |-> 5, losses |-> 2, total_games |-> 7,
     highest_rank |-> 1, playlists |-> EmptyMap]

RankedEntry ==
    [xp |-> 500, rank |-> 30, wins |-> 5, losses |-> 2, total_games |-> 7,
     highest_rank |-> 30,
     playlists |-> PLAYLIST_HEAD_TO_HEAD :>
                      [xp |-> 500, rank |-> 30, highest_rank |-> 30, wins |-> 5,
                       losses |-> 2, games |-> 7]]

RegistryFiles ==
    {RankstatsJson} \cup {[RankstatsJson EXCEPT !["1001"] = e] : e \in {FlatEntry, RankedEntry}}

InitRegistry ==
    /\ \E fs \in SUBSET FileNames : InitDirectory(fs, EmptyMap)
    /\ \E registry \in RegistryFiles : probe = [kind |-> "registry", rankstats |-> registry]

NextRegistry ==
    \/ StartRun(FALSE, 0)
    \/ ReplayStep
    \/ Finish

SpecRegistry == InitRegistry /\ [][NextRegistry]_vars

-----------------------------------------------------------------------------
(* First runs over exports of two sessions, each with its identity file *)

\* the identity file of the first session, and of a later session in which
\* the name Bob is played from the console of 1001 and Zed from that of 1002
FirstSession == [stamp |-> 1, name_to_mac |-> IdentityNameToMac]
LaterSession ==
    [stamp |-> 3,
     name_to_mac |-> [n \in {"bob", "zed"} |-> IF n = "bob" THEN "aa11" ELSE "bb22"]]

IdentityFiles == {<<FirstSession>>, <<LaterSession>>, <<FirstSession, LaterSession>>}

InitSessions ==
    /\ \E fs \in SUBSET FileNames, manual \in {EmptyMap, 3 :> PLAYLIST_HEAD_TO_HEAD} :
          InitDirectory(fs, manual)
    /\ \E identity_files \in IdentityFiles :
          probe = [kind |-> "sessions", identity_files |-> identity_files]

NextSessions ==
    \/ StartRun(FALSE, 0)
    \/ ReplayStep
    \/ Finish

SpecSessions == InitSessions /\ [][NextSessions]_vars

-----------------------------------------------------------------------------
(* The classifier over the session records of the bot *)

\* exports whose two players are both registered, one of them, or neither
CorroborateExports == {1, 3, 18}

\* game start times (local minutes) around the window of the sessions
GameTimes == {54, 55, 90, 125, 126}

\* sessions from 01:00 to 02:00 local: of the registered players, of other
\* players, without listed players, and one still active
SessionRecords ==
    {Session(360, 420, PLAYLIST_HEAD_TO_HEAD, {"1001", "1002"}),
     Session(360, 420, PLAYLIST_HEAD_TO_HEAD, {"2001", "2002"}),
     Session(360, 420, PLAYLIST_HEAD_TO_HEAD, {}),
     Session(360, 0, PLAYLIST_HEAD_TO_HEAD, {"1001", "1002"})}

SessionLists ==
    {<<>>} \cup {<<a>> : a \in SessionRecords}
           \cup {<<a, b>> : a \in SessionRecords, b \in SessionRecords}

InitCorroborate ==
    /\ InitRun
    /\ rank_probe = NoProbe
    /\ \E f \in CorroborateExports, game_dt \in GameTimes, all_matches \in SessionLists :
          probe = [kind |-> "corroborate", file |-> f, game_dt |-> game_dt,
                   all_matches |-> all_matches, done |-> FALSE, playlist |-> None]

\* playlist = determine_playlist(file_path, all_matches, ...) of Step 2
Corroborate ==
    /\ probe.kind = "corroborate"
    /\ ~probe.done
    /\ probe' = [probe EXCEPT
                   !.done = TRUE,
                   !.playlist = determine_playlist(impl, probe.file, EmptyMap, EmptyMap)]
    /\ UNCHANGED <<runVars, rank_probe>>

NextCorroborate == Corroborate

SpecCorroborate == InitCorroborate /\ [][NextCorroborate]_vars

-----------------------------------------------------------------------------
(* Runs started without --force *)

NextRerun ==
    \/ \E f \in FileNames : AddFile(f)
    \/ \E e \in ManualEntries : SetManual(e[1], e[2])
    \/ \E seed \in HashSeeds : StartRun(FALSE, seed)
    \/ ReplayStep
    \/ Finish

SpecRerun == Init /\ [][NextRerun]_vars

-----------------------------------------------------------------------------
(* The per-playlist standings file written with the run's other output *)

\* the 'winner' of the stats loop: the team of the winners, None on a tie
WinnerTeam(f) ==
    LET winners == determine_winners_losers(f)[1]
    IN IF winners # {} /\ winners \cap TeamPlayers(f, "Red") # {} THEN "Red"
       ELSE IF winners # {} THEN "Blue"
       ELSE None

\* the players of <playlist>_stats.json: populate_stats.py copies wins and
\* losses from the standings, BACKUPpopulate_stats.py counts them again over
\* the rows of the playlist's games (a row not of the winner team is a loss)
save_playlist_stats(im, playlist, ranks, game_playlists, p2id) ==
    LET playlist_games == {f \in DOMAIN game_playlists : game_playlists[f] = playlist}
        RowsOf(user_id, won) ==
            UNION {{<<f, i>> : i \in {j \in DOMAIN GameFiles[f].players :
                      /\ GameFiles[f].players[j].name \in DOMAIN p2id
                      /\ p2id[GameFiles[f].players[j].name] = user_id
                      /\ (GameFiles[f].players[j].team = WinnerTeam(f)) = won}} :
                   f \in playlist_games}
        counted(user_id) == RowsOf(user_id, TRUE) \cup RowsOf(user_id, FALSE) # {}
    IN [user_id \in {u \in DOMAIN ranks : playlist \in DOMAIN ranks[u].playlists} |->
          LET pl_data == ranks[user_id].playlists[playlist]
          IN [xp |-> pl_data.xp,
              rank |-> pl_data.rank,
              highest_rank |-> pl_data.highest_rank,
              wins |-> IF im = "backup" /\ counted(user_id)
                       THEN Cardinality(RowsOf(user_id, TRUE)) ELSE pl_data.wins,
              losses |-> IF im = "backup" /\ counted(user_id)
                         THEN Cardinality(RowsOf(user_id, FALSE)) ELSE pl_data.losses]]

-----------------------------------------------------------------------------
(* Properties *)

\* an incremental run has just completed on top of a full rebuild: the new
\* files are all later than the files of the rebuild, every file is ranked,
\* and neither the overrides nor any stored playlist changed in between
IncrementalAfterFull ==
    /\ pc = "idle"
    /\ run_mode = "incremental"
    /\ since_full = 1
    /\ prev_full.runs > 0
    /\ prev_full.manual = run_in.manual
    /\ ~run_in.ledger_drift
    /\ run_in.files = prev_full.files \cup new_files
    /\ \A f \in run_in.files : game_playlist[f] # None
    /\ \A f \in new_files, g \in prev_full.files :
           GameFiles[f].start > GameFiles[g].start

\* C1 (incremental equivalence): after a full rebuild of a first batch and an
\* incremental run over a strictly later second batch, every player's final
\* per-playlist standings equal those of one full rebuild over all the files.
C1_IncrementalEquivalence ==
    IncrementalAfterFull =>
        StandingsByName(ranks_json, player_to_id, all_player_names)
            = FullRebuild(impl, run_in.files, run_in.manual, 0)

\* C2 (mandatory full-rebuild escalation): a run that starts while a processed
\* file's resolved playlist differs from the ledger, or while the override
\* file's hash differs from the stored hash, never proceeds incrementally.
C2_FullRebuildEscalation ==
    (run_in.ledger_drift \/ run_in.hash_drift) => run_mode # "incremental"

\* C3 (determinism): two full rebuilds over the same files and overrides end
\* with identical PlaylistStanding maps for every identity.
C3_Determinism ==
    prev_full.twin =>
        \A u \in (DOMAIN prev_full.standings) \cup (DOMAIN prev_full.twin_standings) :
            Get(prev_full.standings, u, EmptyMap)
                = Get(prev_full.twin_standings, u, EmptyMap)

\* every XP value of a set of per-playlist standings
XpOf(pls) == {pls[pl].xp : pl \in DOMAIN pls}

\* C4 (XP floor): XP is never negative, in the replay state after every match,
\* in the rank history, in the registry and in every persisted standing.
C4_XpFloor ==
    /\ \A n \in DOMAIN acc : \A x \in XpOf(acc[n]) : x >= 0
    /\ \A i \in DOMAIN last_rows : last_rows[i].new_xp >= 0
    /\ \A u \in DOMAIN rankhistory :
           \A i \in DOMAIN rankhistory[u] : rankhistory[u][i].xp_total >= 0
    /\ \A u \in DOMAIN rankstats :
           /\ Get(rankstats[u], "xp", 0) >= 0
           /\ \A x \in XpOf(Get(rankstats[u], "playlists", EmptyMap)) : x >= 0
    /\ \A u \in DOMAIN ranks_json :
           /\ ranks_json[u].xp >= 0
           /\ \A x \in XpOf(ranks_json[u].playlists) : x >= 0
    /\ \A u \in DOMAIN Get(processed_state, "player_state", EmptyMap) :
           /\ processed_state.player_state[u].xp >= 0
           /\ \A x \in XpOf(processed_state.player_state[u].playlists) : x >= 0

\* a loss has just been floored: the change alone would have gone below zero
C4_FloorActed ==
    \E i \in DOMAIN last_rows :
        /\ last_rows[i].result = "loss"
        /\ last_rows[i].old_xp + last_rows[i].xp_change < 0
        /\ last_rows[i].new_xp = 0

\* C5 (alias non-duplication): after a completed run, the persisted XP of an
\* identity that played a playlist under two names equals the sum of the XP
\* changes its matches applied, each match once.
C5_AliasNonDuplication ==
    (pc = "idle" /\ run_mode \in {"full", "incremental"}) =>
        \A u \in DOMAIN credited : \A pl \in DOMAIN credited[u] :
            Cardinality(credited[u][pl].names) >= 2 =>
                Get(Get(ranks_json, u, [playlists |-> EmptyMap]).playlists,
                    pl, ZeroStanding).xp = credited[u][pl].xp

\* the game replayed last ended with equal team scores
LastGameTied ==
    /\ last_game.file \in FileNames
    /\ TeamScore(last_game.file, "Red") = TeamScore(last_game.file, "Blue")

\* the standing of a name in a playlist, a missing one read as the zero entry
StandingOf(a, n, pl) == Get(Get(a, n, EmptyMap), pl, ZeroStanding)

\* C6 (tie neutrality): a tied ranked match adds exactly one game to every
\* participant that is not a dedicated server and leaves the participant's
\* XP, rank, wins and losses as they were.
C6_TieNeutrality ==
    LastGameTied =>
        \A n \in {m \in PlayerNames(last_game.file) : ~is_dedicated_server(m)} :
            LET pl == game_playlist[last_game.file]
                before == StandingOf(last_game.acc, n, pl)
                after == StandingOf(acc, n, pl)
            IN /\ after.games = before.games + 1
               /\ after.xp = before.xp
               /\ after.rank = before.rank
               /\ after.wins = before.wins
               /\ after.losses = before.losses

\* C7 (replay order): the matches applied to the XP state since it was last
\* empty were applied in ascending start-time order.
C7_ReplayOrder ==
    \A i, j \in DOMAIN applied :
        i < j => GameFiles[applied[i]].start <= GameFiles[applied[j]].start

\* C8 (rank monotonicity): for XP values a < b looked up in the same threshold
\* table, calculate_rank(a) <= calculate_rank(b), also where an XP value lies
\* above the top band or outside every band.
C8_RankMonotonicity ==
    rank_probe.done => rank_probe.rank_a <= rank_probe.rank_b

\* a lookup of an XP value in the top band and of one just above it
C8_AboveTopBand ==
    /\ rank_probe.done
    /\ rank_probe.rank_thresholds = XpConfig.rank_thresholds
    /\ rank_probe.a = XpConfig.rank_thresholds[50][2]
    /\ rank_probe.b = rank_probe.a + 1

\* rank agrees with XP in every entry of a set of per-playlist standings
RankFromXp(pls) ==
    \A pl \in DOMAIN pls :
        pls[pl].rank = calculate_rank(pls[pl].xp, XpConfig.rank_thresholds)

\* C9 (rank derived only from XP): every standing the replay holds or reads,
\* and every persisted PlaylistStanding, has rank = calculate_rank(xp).
C9_RankDerivedFromXp ==
    /\ \A n \in DOMAIN acc : RankFromXp(acc[n])
    /\ \A i \in DOMAIN last_rows :
           /\ last_rows[i].rank_before
                  = calculate_rank(last_rows[i].old_xp, XpConfig.rank_thresholds)
           /\ last_rows[i].new_rank
                  = calculate_rank(last_rows[i].new_xp, XpConfig.rank_thresholds)
    /\ \A u \in DOMAIN ranks_json : RankFromXp(ranks_json[u].playlists)
    /\ \A u \in DOMAIN Get(processed_state, "player_state", EmptyMap) :
           RankFromXp(processed_state.player_state[u].playlists)

\* highest_rank >= rank in every entry of a set of per-playlist standings
HighestCoversRank(pls) ==
    \A pl \in DOMAIN pls : pls[pl].highest_rank >= pls[pl].rank

\* C10 (highest_rank is a running maximum): every stored highest_rank, per
\* playlist and overall, is at least the rank stored next to it.
C10_HighestRankRunningMax ==
    /\ \A n \in DOMAIN acc : HighestCoversRank(acc[n])
    /\ \A u \in DOMAIN ranks_json :
           /\ HighestCoversRank(ranks_json[u].playlists)
           /\ ranks_json[u].highest_rank >= ranks_json[u].rank
    /\ \A u \in DOMAIN Get(processed_state, "player_state", EmptyMap) :
           /\ HighestCoversRank(processed_state.player_state[u].playlists)
           /\ processed_state.player_state[u].highest_rank
                  >= processed_state.player_state[u].rank

\* C11 (XP delta rule): the XP change of a win is the base win amount times the
\* win factor of the rank held before the match, the factor being 1.0 up to
\* rank 40 and the configured per-rank value (default 0.50) above; the XP change
\* of a loss is the (negative) base loss amount times the loss factor, 1.0 from
\* rank 30 and the configured per-rank value below.  XP is an integer: the
\* fraction of the product is dropped.  Factors are percentages.
C11_XpDeltaRule ==
    (probe.kind = "xp_change" /\ probe.done) =>
        LET r == probe.rank_before
            c == probe.cfg
            d == probe.xp_change
            wf == IF r <= 40 THEN 100
                  ELSE IF r \in DOMAIN c.win_factors THEN c.win_factors[r] ELSE 50
            win == c.game_win * wf
            loss == c.game_loss * (IF r >= 30 THEN 100 ELSE c.loss_factors[r])
        IN /\ probe.game_result = "win" =>
                 (100 * d <= win /\ win < 100 * d + 100)
           /\ (probe.game_result = "loss" /\ (r >= 30 \/ r \in DOMAIN c.loss_factors)) =>
                 (100 * d - 100 < loss /\ loss <= 100 * d)

\* a win above rank 40 under a configured factor whose product has a fraction
C11_DampedWin ==
    /\ probe.kind = "xp_change"
    /\ probe.done
    /\ probe.game_result = "win"
    /\ probe.rank_before = 45
    /\ probe.cfg.game_win = 75
    /\ probe.xp_change = 22

\* an export was classified
Classified == probe.kind = "classify" /\ probe.done

\* C12 (forced-unranked priority): a file listed in the forced-unranked override
\* is classified unranked, whatever else holds, also when the forced-playlist
\* override lists it too.
C12_ForcedUnrankedPriority ==
    (Classified /\ probe.file \in DOMAIN probe.manual_unranked) => probe.playlist = None

ByStructure(player_count) ==
    /\ Classified
    /\ impl = "backup"
    /\ probe.manual = EmptyMap
    /\ probe.manual_unranked = EmptyMap
    /\ Len(GameFiles[probe.file].players) = player_count
    /\ parse_duration_seconds(GameFiles[probe.file].duration) >= 120

\* the (map, base game type) pair is one of the listed combinations
InWhitelist(map_name, game_type) ==
    /\ map_name \in DOMAIN VALID_MLG_4V4_COMBOS
    /\ (IF Lower(game_type) = "capture_the_flag" THEN "ctf" ELSE Lower(game_type))
          \in VALID_MLG_4V4_COMBOS[map_name]

\* C14 (whitelist classification): under structural criteria an 8-player
\* two-team match past the duration gate, without manual override, gets the
\* top-tier team playlist iff its (map, base game type) pair is in the
\* whitelist, and is unranked otherwise.
C14_WhitelistClassification ==
    (ByStructure(8) /\ is_team_game(probe.file)) =>
        IF InWhitelist(GameFiles[probe.file].map_name, GameFiles[probe.file].game_type)
        THEN probe.playlist = PLAYLIST_MLG_4V4
        ELSE probe.playlist = None

\* C15 (head-to-head decisiveness): a 2-player match past the duration gate,
\* without manual override, is head-to-head iff its maximum score is at most 15
\* and either equals 15 or the match lasted at least 14 minutes; with a
\* maximum score above 15 it is unranked.
C15_HeadToHeadDecisiveness ==
    ByStructure(2) =>
        LET g == GameFiles[probe.file]
            max_score == IF g.red_score > g.blue_score THEN g.red_score ELSE g.blue_score
            decisive == /\ max_score <= 15
                        /\ (max_score = 15 \/ parse_duration_seconds(g.duration) >= 14 * 60)
        IN /\ probe.playlist = PLAYLIST_HEAD_TO_HEAD <=> decisive
           /\ max_score > 15 => probe.playlist = None

\* the series of the playlist have been detected
SeriesDetected == probe.kind = "series" /\ probe.done

\* the match played at SeriesStarts[slot]
PlayedAt(slot) == SeriesGame(slot, probe.kinds[slot])

\* the source files of the detected series, series after series
RECURSIVE SeriesFiles(_)
SeriesFiles(series_list) ==
    IF series_list = <<>> THEN <<>>
    ELSE [i \in DOMAIN Head(series_list).games |-> Head(series_list).games[i].source_file]
            \o SeriesFiles(Tail(series_list))

\* the position in the series list of the series that holds the match of a slot
SeriesIndexOf(slot) ==
    CHOOSE k \in DOMAIN probe.series :
        \E i \in DOMAIN probe.series[k].games : probe.series[k].games[i].source_file = slot

\* C16 (series segmentation): the matches of a playlist, taken in ascending
\* start-time order, are cut into contiguous series; two consecutive matches
\* are in the same series iff they have the same team signature; five matches
\* of which the first three share a roster and the last two have one player
\* swapped give two series, of 3 games and then of 2 games.
C16_SeriesSegmentation ==
    SeriesDetected =>
        /\ SeriesFiles(probe.series) = [i \in DOMAIN probe.kinds |-> i]
        /\ \A i \in 1..(Len(probe.kinds) - 1) :
              (SeriesIndexOf(i) = SeriesIndexOf(i + 1))
                 <=> (get_team_signature(PlayedAt(i)) = get_team_signature(PlayedAt(i + 1)))
        /\ (/\ Len(probe.kinds) = 5
            /\ \A i \in 1..3 : SeriesKinds[probe.kinds[i]].red = "Ace"
                                  /\ SeriesKinds[probe.kinds[i]].blue = "Bob"
            /\ \A i \in 4..5 : SeriesKinds[probe.kinds[i]].red = "Ace"
                                  /\ SeriesKinds[probe.kinds[i]].blue = "Zed")
              => /\ Len(probe.series) = 2
                 /\ Len(probe.series[1].games) = 3
                 /\ Len(probe.series[2].games) = 2
                 /\ probe.series[1].blue_team = {"Bob"}

\* a signature that does not tell the colours apart
UnorderedSignature(game) ==
    {{Lower(n) : n \in TeamNames(game, "Red")}, {Lower(n) : n \in TeamNames(game, "Blue")}}

\* C17 (series signature is an unordered pair of rosters): two consecutive
\* matches played by the same two sets of lowercase names belong to the same
\* series, also when the rosters exchanged their colours between the matches.
C17_UnorderedSignature ==
    SeriesDetected =>
        \A i \in 1..(Len(probe.kinds) - 1) :
            UnorderedSignature(PlayedAt(i)) = UnorderedSignature(PlayedAt(i + 1))
                => \E k \in DOMAIN probe.series :
                      {i, i + 1} \subseteq
                          {probe.series[k].games[j].source_file :
                              j \in DOMAIN probe.series[k].games}

C19_HeldTimeParsing ==
    (probe.kind = "held" /\ probe.done) =>
        /\ (Len(probe.parts) = 2 /\ probe.parts[1].text = "digits"
                                 /\ probe.parts[2].text = "digits")
              => probe.seconds = 60 * probe.parts[1].value + probe.parts[2].value
        /\ (Len(probe.parts) = 2 /\ probe.parts[1].text = "empty"
                                 /\ probe.parts[2].text = "digits")
              => probe.seconds = probe.parts[2].value
        /\ (probe.parts = <<DigitsPart(1), DigitsPart(5)>>) => probe.seconds = 65
        /\ (\/ probe.parts = <<EmptyPart>>
            \/ \E i \in DOMAIN probe.parts : probe.parts[i].text = "junk")
              => probe.seconds = 0

\* C20 (scoring consistency across call sites): every place that computes a
\* match winner applies the same CTF/Oddball scoring rules, so the winner
\* recorded for a logged match is the team with the strictly higher recorded
\* team score, and a tie is recorded exactly when red_score equals blue_score.
C20_ScoringConsistency ==
    /\ (probe.kind = "log" /\ probe.entry # NoEntry) =>
          /\ probe.entry.winner = "Red" <=> probe.entry.red_score > probe.entry.blue_score
          /\ probe.entry.winner = "Blue" <=> probe.entry.blue_score > probe.entry.red_score
          /\ probe.entry.winner = "Tie" <=> probe.entry.red_score = probe.entry.blue_score
    /\ (probe.kind = "log" /\ probe.embed # NoEntry) =>
          /\ probe.embed.winner = "RED" <=> probe.embed.red_score > probe.embed.blue_score
          /\ probe.embed.winner = "BLUE" <=> probe.embed.blue_score > probe.embed.red_score
          /\ probe.embed.winner = "TIE" <=> probe.embed.red_score = probe.embed.blue_score

\* C21 (resolution order): the resolver tries the hardcoded override table,
\* then the session name-to-address map combined with the address-to-identity
\* registry, then the legacy profile-alias / display-name lookup, and returns
\* the identity of the first strategy that yields one.
C21_ResolutionOrder ==
    (probe.kind = "resolve" /\ probe.done) =>
        LET name_lower == Lower(probe.player_name)
            hardcoded == \/ name_lower \in DOMAIN UNICODE_NAME_MAPPINGS
                         \/ NoSpaces(name_lower) \in DOMAIN UNICODE_NAME_MAPPINGS
            by_address == /\ name_lower \in DOMAIN probe.identity_name_to_mac
                          /\ probe.identity_name_to_mac[name_lower]
                                \in DOMAIN probe.mac_to_discord
            by_profile == name_lower \in DOMAIN probe.profile_lookup
            by_display == \E u \in DOMAIN probe.rankstats :
                              Lower(probe.rankstats[u].discord_name) = name_lower
        IN /\ hardcoded => probe.user_id = "210187331066396672"
           /\ (~hardcoded /\ by_address)
                 => probe.user_id = probe.mac_to_discord[probe.identity_name_to_mac[name_lower]]
           /\ (~hardcoded /\ ~by_address /\ by_profile)
                 => probe.user_id = probe.profile_lookup[name_lower]
           /\ (~hardcoded /\ ~by_address /\ ~by_profile /\ by_display)
                 => probe.user_id \in DOMAIN probe.rankstats
           /\ (~hardcoded /\ ~by_address /\ ~by_profile /\ ~by_display)
                 => probe.user_id = None

\* the positions in players.json of the identities that claim an address
Claimants(address) ==
    {i \in DOMAIN probe.players :
        \E k \in DOMAIN probe.players[i].mac_addresses :
            normalize_mac(impl, probe.players[i].mac_addresses[k]) = address}

\* C22 (duplicate hardware address): when two identities of the registry claim
\* the same normalized address, the lookup maps the address to the identity
\* registered first and never overwrites it with a later one.
C22_FirstClaimantKept ==
    (probe.kind = "macs" /\ probe.done) =>
        \A address \in DOMAIN probe.mac_to_discord :
            \A i \in Claimants(address) :
                (\A j \in Claimants(address) : i <= j)
                    => probe.mac_to_discord[address] = probe.players[i].user_id

\* C23 (stable provisional identity): the provisional identity of an unresolved
\* name is a function of the name alone: whenever the name holds a provisional
\* identity before and after a step (within a run or from one run to the
\* next), it is the same identity.
C23_StableProvisionalIdentity ==
    [][\A n \in (DOMAIN player_to_id) \cap (DOMAIN player_to_id') :
          resolve_player_to_discord(n, IdentityNameToMac, MacToDiscord) = None
              => player_to_id'[n] = player_to_id[n]]_vars

\* the per-playlist totals persisted under identity user_id in a ranks file
PersistedTotals(ranks, user_id) ==
    Get(Get(ranks, user_id, EmptyMap), "playlists", EmptyMap)

\* the name held a provisional identity with totals when the identity files
\* linked it, and a run has completed since
MergedSince(n) ==
    /\ probe.kind = "identities"
    /\ pc = "idle"
    /\ runs > probe.linked_at
    /\ run_mode \in {"full", "incremental"}
    /\ Lower(n) \in DOMAIN probe.identity_name_to_mac
    /\ n \in DOMAIN probe.ids_before
    /\ probe.ids_before[n] \notin DOMAIN RankstatsJson
    /\ PersistedTotals(probe.ranks_before, probe.ids_before[n]) # EmptyMap

\* C24 (provisional merge preserves totals): once a name that held a
\* provisional identity has an address match and a run has completed, the
\* wins, losses and games it had accumulated per playlist are part of the real
\* identity's persisted standings, and no totals remain under a provisional
\* identity of the name.
C24_ProvisionalMergePreservesTotals ==
    \A n \in LinkableNames :
        MergedSince(n) =>
            LET user_id == MacToDiscord[probe.identity_name_to_mac[Lower(n)]]
                held == PersistedTotals(probe.ranks_before, probe.ids_before[n])
                now == PersistedTotals(ranks_json, user_id)
            IN /\ \A seed \in HashSeeds :
                      PersistedTotals(ranks_json, TempId(n, seed)) = EmptyMap
               /\ \A pl \in DOMAIN held :
                      /\ pl \in DOMAIN now
                      /\ now[pl].wins >= held[pl].wins
                      /\ now[pl].losses >= held[pl].losses
                      /\ now[pl].games >= held[pl].games

\* a rank history with the export names left out
Unnamed(history) ==
    [u \in DOMAIN history |->
        [i \in DOMAIN history[u] |->
            [k \in (DOMAIN history[u][i]) \ {"source_file"} |-> history[u][i][k]]]]

\* the first run over the directory with the dedicated-server row has completed
DedicatedRunDone ==
    /\ probe.kind = "dedicated"
    /\ pc = "idle"
    /\ runs = 1
    /\ run_mode = "full"

\* the same run over the directory with the match exported without the row
PlainRun ==
    RunOutcome(impl, (files \ {probe.file}) \cup {PlainExport},
               IF probe.forced THEN PlainExport :> PLAYLIST_HEAD_TO_HEAD ELSE EmptyMap, 0)

\* C25 (dedicated-server exclusion): a dedicated-server row is never resolved
\* to an identity, and a run over a match exported with such a row leaves the
\* same standings, stats and rank history (win/loss results included) for
\* every identity as the run over the match without the row.
C25_DedicatedServerExcluded ==
    DedicatedRunDone =>
        /\ \A n \in DOMAIN player_to_id : ~is_dedicated_server(n)
        /\ ranks_json = PlainRun.ranks
        /\ Unnamed(rankhistory_json) = Unnamed(PlainRun.rankhistory)

\* the files of the persisted snapshot: standings, per-playlist logs,
\* custom-games log and processed-state ledger
SnapshotFiles == OutputFiles \ {"rankhistory.json"}

\* C26 (atomic snapshot replacement): until a run has completed, and after it
\* has failed, every snapshot file is what it was before the run, so a reader
\* sees the previous snapshot or the complete new one and nothing in between.
C26_AtomicSnapshot ==
    (probe.kind = "snapshot" /\ probe.status \in {"writing", "failed"}) =>
        \A f \in SnapshotFiles : probe.disk[f] = probe.before[f]

\* a run is under way that found no readable processed_state.json
LostAtStart ==
    /\ pc = "replay"
    /\ processed_state \in {MissingFile, UnreadableFile}

\* C27 (missing snapshot): a run that finds processed_state.json missing or
\* unreadable goes on with no prior state and is a full rebuild from empty
\* state: every file counts as new, every ranked game is replayed, and nothing
\* of an earlier run is restored.
C27_MissingSnapshot ==
    LostAtStart =>
        /\ run_mode = "full"
        /\ loaded_state = DefaultProcessedState
        /\ new_files = files
        /\ applied \o queue = ranked_games
        /\ DOMAIN player_to_id \subseteq UNION {PlayerNames(f) : f \in files}
        /\ applied = <<>> =>
               /\ rankhistory = EmptyMap
               /\ \A n \in DOMAIN acc : acc[n] = EmptyMap
               /\ \A u \in DOMAIN rankstats :
                      /\ Get(rankstats[u], "xp", 0) = 0
                      /\ Get(rankstats[u], "total_games", 0) = 0

\* a run with earlier results on disk is replaying after the state file was lost
C27_RebuildAfterLoss ==
    /\ LostAtStart
    /\ ranks_json # EmptyMap
    /\ applied # <<>>

\* C28 (per-file error isolation): when Step 2 has ended, it has ended
\* normally, and every readable export of the batch has been classified and
\* parsed, whatever other exports of the batch could not be read.
C28_PerFileErrorIsolation ==
    (probe.kind = "batch" /\ probe.status # "parsing") =>
        /\ probe.status = "completed"
        /\ \A k \in DOMAIN probe.listing :
               probe.listing[k] \notin probe.unreadable
                   => \E g \in DOMAIN probe.all_games :
                          probe.all_games[g].source_file = probe.listing[k]

\* the XP an identity held in a playlist before the game replayed last: all the
\* changes its earlier matches applied, under whatever name they were played
XpBeforeLastGame(user_id, playlist) ==
    LET total == Get(Get(credited, user_id, EmptyMap), playlist,
                     [xp |-> 0, names |-> {}]).xp
        mine == {i \in DOMAIN last_rows :
                    last_rows[i].user_id = user_id /\ last_rows[i].playlist = playlist}
    IN total - SumSet(mine, [i \in mine |-> last_rows[i].new_xp - last_rows[i].old_xp])

\* C29 (state looked up by identity, not raw name): the XP and the rank a row
\* of the replay starts from are the current XP of the row's resolved identity
\* in the playlist, as left by all earlier matches of the identity under any
\* alias, and the rank of that XP.
C29_StateByIdentity ==
    \A i \in DOMAIN last_rows :
        LET r == last_rows[i]
            before == XpBeforeLastGame(r.user_id, r.playlist)
        IN /\ r.old_xp = before
           /\ r.rank_before = calculate_rank(before, XpConfig.rank_thresholds)

\* the match logs on disk that list export f
LogsListing(f) ==
    {pl \in DOMAIN probe.logs : \E k \in DOMAIN probe.logs[pl] : probe.logs[pl][k] = f}

\* C30 (match logs partition the ranked matches): after a run, every match the
\* run assigned a playlist is listed in exactly one per-playlist match log,
\* the log of its assigned playlist.
C30_MatchLogsPartition ==
    (probe.kind = "match logs" /\ probe.runs > 0 /\ ~probe.changed) =>
        \A f \in DOMAIN probe.assigned :
            probe.assigned[f] # None => LogsListing(f) = {probe.assigned[f]}

\* the identities that play in export f (dedicated-server rows left out)
ParticipantsOf(f) ==
    {player_to_id[n] : n \in {m \in PlayerNames(f) : ~is_dedicated_server(m)}}

\* the ranked matches of playlist pl in the directory that identity u played
RankedMatchesOf(u, pl) ==
    {f \in files : game_playlist[f] = pl /\ u \in ParticipantsOf(f)}

\* the first run over the directory has completed and processed games
FirstRunDone ==
    /\ probe.kind = "overrides"
    /\ pc = "idle"
    /\ runs = 1
    /\ run_mode = "full"

\* C31 (every ranked match is replayed): after a run from scratch, every match
\* the classifier assigned a playlist, by an override to any playlist name
\* included, has been replayed, and the games an identity holds in a playlist
\* are its matches of that playlist.
C31_EveryRankedMatchReplayed ==
    FirstRunDone =>
        \A f \in files :
            game_playlist[f] # None =>
                /\ \E k \in DOMAIN applied : applied[k] = f
                /\ \A u \in ParticipantsOf(f) :
                       Get(Get(Get(ranks_json, u, EmptyMap), "playlists", EmptyMap),
                           game_playlist[f], ZeroStanding).games
                           = Cardinality(RankedMatchesOf(u, game_playlist[f]))

\* the first run over the directory with the head-to-head export has completed
HeadToHeadRunDone ==
    /\ probe.kind = "head to head"
    /\ pc = "idle"
    /\ runs = 1
    /\ run_mode = "full"

\* the ranked 2-player head-to-head matches of the directory whose two rows
\* have different scores
DecidedHeadToHead ==
    {f \in files :
        /\ game_playlist[f] = PLAYLIST_HEAD_TO_HEAD
        /\ Len(GameFiles[f].players) = 2
        /\ GameFiles[f].players[1].score_numeric # GameFiles[f].players[2].score_numeric}

\* the row of f with the higher (hi) or the lower (~hi) score
ScoringRow(f, hi) ==
    LET rows == GameFiles[f].players
    IN IF (rows[1].score_numeric > rows[2].score_numeric) = hi THEN rows[1] ELSE rows[2]

\* the results the rank history records for match f, by identity
ResultsOf(f) ==
    UNION {{<<u, rankhistory_json[u][i].result>> :
               i \in {j \in DOMAIN rankhistory_json[u] :
                         rankhistory_json[u][j].source_file = f}} :
           u \in DOMAIN rankhistory_json}

\* C32 (head-to-head outcome): in a ranked 2-player head-to-head match whose
\* players have different scores the higher-scoring player is the only winner
\* and the other the only loser, and the replay records one win and one loss.
C32_HeadToHeadOutcome ==
    HeadToHeadRunDone =>
        \A f \in DecidedHeadToHead :
            /\ determine_winners_losers(f)
                  = <<{ScoringRow(f, TRUE).name}, {ScoringRow(f, FALSE).name}>>
            /\ ResultsOf(f) = {<<player_to_id[ScoringRow(f, TRUE).name], "win">>,
                               <<player_to_id[ScoringRow(f, FALSE).name], "loss">>}

\* a run has written its output and no other run has started
OutputWritten ==
    /\ probe = NoCall
    /\ pc = "idle"
    /\ runs > 0
    /\ run_mode \in {"full", "incremental"}

\* C33 (standings snapshot agrees with replay): in every per-playlist
\* standings file the wins and losses of an identity are the wins and losses
\* of its standing in the playlist as the replay left it; a tied match adds
\* to neither.
C33_StandingsAgreeWithReplay ==
    OutputWritten =>
        \A playlist \in {all_playlists(impl)[i] : i \in DOMAIN all_playlists(impl)} :
            LET players == save_playlist_stats(impl, playlist, ranks_json,
                                               game_playlist, player_to_id)
            IN \A u \in DOMAIN players :
                  /\ players[u].wins = ranks_json[u].playlists[playlist].wins
                  /\ players[u].losses = ranks_json[u].playlists[playlist].losses

\* the identities that play a ranked match of the directory
RankedIdentities ==
    UNION {ParticipantsOf(f) : f \in {g \in files : game_playlist[g] # None}}

\* an entry of the registry or of ranks.json in the zero state
ZeroState(entry) ==
    /\ Get(entry, "xp", 0) = 0
    /\ Get(entry, "rank", 1) = 1
    /\ Get(entry, "wins", 0) = 0
    /\ Get(entry, "losses", 0) = 0
    /\ Get(entry, "highest_rank", 1) = 1
    /\ \A pl \in DOMAIN Get(entry, "playlists", EmptyMap) :
          entry.playlists[pl] = ZeroStanding

\* C34 (full rebuild resets everything): a full rebuild starts its replay from
\* a registry whose every identity is in the zero state, and an identity with
\* no ranked match in the directory ends the run in the zero state.
C34_FullRebuildResets ==
    /\ (probe.kind = "registry" /\ pc = "replay" /\ run_mode = "full") =>
          \A u \in DOMAIN rankstats : ZeroState(rankstats[u])
    /\ (probe.kind = "registry" /\ pc = "idle" /\ runs = 1 /\ run_mode = "full") =>
          \A u \in (DOMAIN ranks_json) \ RankedIdentities : ZeroState(ranks_json[u])

\* the identity that owns the address the session of export f lists for name
SessionOwner(f, name) ==
    resolve_player_to_discord(name, IdentityForGame(f), MacToDiscord)

\* the identities the rank history credits with match f
CreditedWith(f) == {e[1] : e \in ResultsOf(f)}

\* C35 (session-scoped resolution): every row of a replayed match is credited
\* to the identity that owns the address the identity file of the match's
\* session lists for the row's name, also when the same name has another
\* address in another session.
C35_SessionScopedResolution ==
    (probe.kind = "sessions" /\ pc = "idle" /\ runs = 1 /\ run_mode = "full") =>
        \A f \in {g \in files : game_playlist[g] # None} :
            \A name \in PlayerNames(f) :
                (~is_dedicated_server(name) /\ SessionOwner(f, name) # None) =>
                    SessionOwner(f, name) \in CreditedWith(f)

\* a session record corroborates the game: its window holds the start of the
\* game and one of its players is a resolved player of the game
Corroborated(f, game_dt, match) ==
    /\ InWindow(game_dt, match)
    /\ GameDiscordIds(PlayerNames(f)) \cap match.player_ids # {}

\* C36 (session corroboration): in session-corroborated mode a match without
\* a manual override receives a playlist only if some session record covers
\* its start time and shares a participant identity with it; the time window
\* alone is never enough.
C36_SessionCorroboration ==
    (probe.kind = "corroborate" /\ probe.done /\ impl = "populate"
        /\ probe.playlist # None) =>
        \E i \in DOMAIN probe.all_matches :
            Corroborated(probe.file, probe.game_dt, probe.all_matches[i])

\* the history of one identity is in ascending match-time order and each
\* entry starts from the rank the previous entry of its playlist ended with
Chain(history) ==
    \A j \in DOMAIN history :
        /\ \A i \in 1..(j - 1) :
              GameFiles[history[i].source_file].start
                 <= GameFiles[history[j].source_file].start
        /\ LET earlier == {i \in 1..(j - 1) : history[i].playlist = history[j].playlist}
           IN history[j].rank_before =
                 IF earlier = {} THEN 1
                 ELSE history[CHOOSE i \in earlier : \A k \in earlier : k <= i].rank_after

\* the source files with an entry in the rank history
RecordedFiles(rh) ==
    UNION {{rh[u][i].source_file : i \in DOMAIN rh[u]} : u \in DOMAIN rh}

\* an incremental run keeps every recorded entry in place and appends
\* entries of files not recorded before
AppendsOnly ==
    (pc = "replay" /\ pc' = "idle" /\ run_mode = "incremental") =>
        /\ \A u \in DOMAIN rankhistory_json :
              /\ u \in DOMAIN rankhistory_json'
              /\ Len(rankhistory_json'[u]) >= Len(rankhistory_json[u])
              /\ SubSeq(rankhistory_json'[u], 1, Len(rankhistory_json[u]))
                    = rankhistory_json[u]
        /\ \A u \in DOMAIN rankhistory_json' :
              \A i \in (Len(Get(rankhistory_json, u, <<>>)) + 1)
                         ..Len(rankhistory_json'[u]) :
                  rankhistory_json'[u][i].source_file \notin RecordedFiles(rankhistory_json)

\* C37 (history is a chronological chain): every identity's rank history is
\* always in ascending match-time order with rank_before continuing the
\* previous entry of the playlist, and an incremental run only appends entries
\* of newly replayed matches, never a second entry for a recorded file.
C37_HistoryChain ==
    /\ [](\A u \in DOMAIN rankhistory_json : Chain(rankhistory_json[u]))
    /\ [][AppendsOnly]_vars

\* per-name standings of a rebuild over fs that replays the ranked matches in
\* start-time order
ChronologicalRebuild(im, fs, manual) ==
    LET r == RunStart(im, fs, manual, DefaultProcessedState, EmptyMap, FALSE, 0)
        final == ReplayAll(im, r.acc, r.rankhistory, SortByStart(r.queue),
                           r.game_playlist, r.player_to_id)
        rs == Consolidate(im, r.rankstats, r.all_player_names, r.player_to_id,
                          final.acc, r.player_game_stats)
    IN StandingsByName(RanksData(rs), r.player_to_id, r.all_player_names)

\* a run has completed that found a new ranked export which started before a
\* ranked export of an earlier run
LateArrival ==
    /\ pc = "idle"
    /\ runs > 1
    /\ run_mode \in {"incremental", "full"}
    /\ \E f \in new_files, g \in run_in.files \ new_files :
          /\ game_playlist[f] # None
          /\ game_playlist[g] # None
          /\ GameFiles[f].start < GameFiles[g].start

\* C38 (late-arriving file): after a run that found a new file whose match
\* started before an already processed ranked match, the standings are those
\* of a full rebuild over all files in start-time order.
C38_LateArrivingFile ==
    LateArrival =>
        StandingsByName(ranks_json, player_to_id, all_player_names)
            = ChronologicalRebuild(impl, run_in.files, run_in.manual)

\* a run starts over the files and overrides the previous run started with
SameInputsRun ==
    /\ pc = "idle"
    /\ runs > 0
    /\ runs' = runs + 1
    /\ run_in.files = files
    /\ run_in.manual = manual_playlists

\* C39 (re-run is a no-op): a run that starts with the files and overrides of
\* the previous completed run finds nothing new or changed and exits without
\* modifying the persisted state.
C39_RerunIsNoop ==
    [][SameInputsRun =>
          /\ run_mode' = "noop"
          /\ pc' = "idle"
          /\ UNCHANGED onDisk]_vars

\* the XP an identity holds in a playlist after the rows replayed so far
XpAfterLastGame(user_id, playlist) ==
    Get(Get(credited, user_id, EmptyMap), playlist, [xp |-> 0, names |-> {}]).xp

\* C40 (history arithmetic): the xp_total of every history entry is the XP
\* the identity holds in the playlist right after the match, and xp_change is
\* xp_total minus the XP it held right before the match.
C40_HistoryArithmetic ==
    \A i \in DOMAIN last_rows :
        LET r == last_rows[i]
        IN /\ r.new_xp = XpAfterLastGame(r.user_id, r.playlist)
           /\ r.xp_change = r.new_xp - XpBeforeLastGame(r.user_id, r.playlist)

====
